---------------------------- MODULE Spec2Model ----------------------------
(***************************************************************************)
(* Gateway-MAC resolution state machine of one emulated client             *)
(* (src/src/emu/core/client_ctx.go) and the ZMQ frame transport            *)
(* (src/unnamed/part_000: VethIFZmq).                                      *)
(*                                                                         *)
(* Specifications:                                                         *)
(*   Spec      - the client: AttemptResolve / timer tick (OnEvent) /       *)
(*               OnRemove, with collaborators writing the gateway bindings *)
(*   SpecTx    - the outbound path: Send / SendBuffer / FlushTx            *)
(*   SpecBurst - the outbound path under a burst of 100-byte frames        *)
(*   SpecRx    - the inbound path: rxThread, the delivery channel and      *)
(*               OnRxStream                                                *)
(***************************************************************************)
EXTENDS Integers, Sequences, FiniteSets, TLC

VARIABLES
    \* ---- CClient: configuration and bindings
    ForceDGW,            \* bool: IPv4 forced gateway MAC
    Ipv6ForceDGW,        \* bool: IPv6 forced gateway MAC
    DGW,                 \* *CClientDg, IPv4 binding (Nil or a record)
    Ipv6DGW,             \* *CClientDg, IPv6 binding
    Ipv6Router,          \* *CClientIpv6Nd, router snapshot
    \* ---- CClient: resolution state
    bitMask,             \* set of RESOLVED_* flags
    resolveAttempts,     \* uint8
    maxResolveAttempts,  \* uint8
    timerIsRunning,      \* o.timer.IsRunning()
    removed,             \* OnRemove has run
    msgs,                \* messages handed to PluginCtx.BroadcastMsg
    \* ---- observation of the client's runs
    lastOp,              \* the operation that produced this state
    pre,                 \* resolution state when the last operation began
    ticks,               \* timer ticks since the last AttemptResolve
    everRes,             \* families whose gateway was resolvable at some time
    removeCalls,         \* collaborator calls made by OnRemove, in order
    \* ---- VethIFZmq and its collaborators
    o,                   \* the VethIFZmq fields: vec, txVecSize, stats, proxyMode,
                         \* and closed: its sockets were closed
    txSocket,            \* the messages sent on o.txSocket, in order
    MPool,               \* per allocated Mbuf (by id): how often it was freed
    panicked,            \* a Go panic has ended the process
    \* ---- observation of the outbound path
    txLast,              \* the last outbound operation, its inputs and pre-state
    sendCalls,           \* calls of Send so far
    flushCalls,          \* calls of FlushTx by the application so far
    \* ---- the inbound path
    rxSocket,            \* messages on the wire, not yet received
    rxPc,                \* rxThread: "recv" (in RecvBytes) or "send" (in o.cn <- msg)
    rxMsg,               \* rxThread: the message it holds
    cnMsg,               \* the message the consumer took from o.cn, or Nil
    rxErrs,              \* receive errors injected so far
    \* ---- observation of the inbound path
    cnLog,               \* wire sequence numbers handed to o.cn, in order
    rxHandled,           \* packets handed to HandleRxPacket, in order
    parseLog,            \* one record per run of OnRxStream
    \* ---- the environment and the codec under test
    useVyos,             \* os.Getenv("USE_VYOS")
    codec                \* the input of a pure operation under test, and what
                         \* the operation made of it

clientVars == <<ForceDGW, Ipv6ForceDGW, DGW, Ipv6DGW, Ipv6Router, bitMask,
                resolveAttempts, maxResolveAttempts, timerIsRunning, removed,
                msgs, lastOp, pre, ticks, everRes, removeCalls>>

txVars == <<o, txSocket, MPool, panicked, txLast, sendCalls, flushCalls>>

rxVars == <<rxSocket, rxPc, rxMsg, cnMsg, rxErrs, cnLog, rxHandled, parseLog>>

codecVars == <<useVyos, codec>>

vars == <<clientVars, txVars, rxVars, codecVars>>

-----------------------------------------------------------------------------
(* Values *)

RESOLVED_IPV4_DG_MAC == "RESOLVED_IPV4_DG_MAC"
RESOLVED_IPV6_DG_MAC == "RESOLVED_IPV6_DG_MAC"
AllResolved == {RESOLVED_IPV4_DG_MAC, RESOLVED_IPV6_DG_MAC}

MSG_DG_MAC_RESOLVED == "MSG_DG_MAC_RESOLVED"

\* a nil pointer
Nil == [nil |-> TRUE]

\* MACKey values: the zero value and the MACs of each gateway source
ZeroMac     == <<0, 0, 0, 0, 0, 0>>
ClientMac   == <<2, 0, 0, 0, 0, 1>>
Forced4Mac  == <<2, 0, 0, 0, 4, 15>>
Forced6Mac  == <<2, 0, 0, 0, 6, 15>>
Bound4Mac   == <<2, 0, 0, 0, 4, 11>>
Bound6Mac   == <<2, 0, 0, 0, 6, 11>>
RouterMac   == <<2, 0, 0, 0, 6, 13>>

\* the values a collaborator may store in a CClientDg pointer
DgValues(mac) ==
    { Nil,
      [IpdgResolved |-> FALSE, IpdgMac |-> ZeroMac],
      [IpdgResolved |-> TRUE,  IpdgMac |-> mac] }

\* the values a collaborator may store in the router snapshot pointer
RouterValues == { Nil, [DgMac |-> RouterMac] }

\* o.maxResolveAttempts = 5
MaxResolveAttempts == 5

-----------------------------------------------------------------------------
(* GatewayResolver *)

ResolveIPv4DGMac_NoForce ==
    IF DGW # Nil /\ DGW.IpdgResolved
    THEN [mac |-> DGW.IpdgMac, ok |-> TRUE]
    ELSE [mac |-> ZeroMac, ok |-> FALSE]

ResolveIPv4DGMac ==
    IF ForceDGW
    THEN [mac |-> Forced4Mac, ok |-> TRUE]
    ELSE IF DGW # Nil /\ DGW.IpdgResolved
         THEN [mac |-> DGW.IpdgMac, ok |-> TRUE]
         ELSE [mac |-> ZeroMac, ok |-> FALSE]

\* Mutant: the router snapshot is consulted before the bound gateway.
ResolveIPv6DGMac_RouterFirst ==
    IF Ipv6ForceDGW
    THEN [mac |-> Forced6Mac, ok |-> TRUE]
    ELSE IF Ipv6Router # Nil
         THEN [mac |-> Ipv6Router.DgMac, ok |-> TRUE]
         ELSE IF Ipv6DGW # Nil /\ Ipv6DGW.IpdgResolved
              THEN [mac |-> Ipv6DGW.IpdgMac, ok |-> TRUE]
              ELSE [mac |-> ZeroMac, ok |-> FALSE]
ResolveIPv6DGMac ==
    IF Ipv6ForceDGW
    THEN [mac |-> Forced6Mac, ok |-> TRUE]
    ELSE IF Ipv6DGW # Nil /\ Ipv6DGW.IpdgResolved
         THEN [mac |-> Ipv6DGW.IpdgMac, ok |-> TRUE]
         ELSE IF Ipv6Router # Nil
              THEN [mac |-> Ipv6Router.DgMac, ok |-> TRUE]
              ELSE [mac |-> ZeroMac, ok |-> FALSE]

\* the families that have a forced, bound or router-learned gateway, given
\* the bindings (observation only)
Resolvable(dgw, dgw6, router) ==
    (IF ForceDGW \/ (dgw # Nil /\ dgw.IpdgResolved)
     THEN {RESOLVED_IPV4_DG_MAC} ELSE {})
    \cup
    (IF Ipv6ForceDGW \/ (dgw6 # Nil /\ dgw6.IpdgResolved) \/ router # Nil
     THEN {RESOLVED_IPV6_DG_MAC} ELSE {})

-----------------------------------------------------------------------------
(* CClient.OnEvent *)

\* Mutant: the bitmask is recomputed from the resolver on every run.
OnEventBitMask_Recompute ==
    (IF ResolveIPv4DGMac.ok THEN {RESOLVED_IPV4_DG_MAC} ELSE {})
    \cup (IF ResolveIPv6DGMac.ok THEN {RESOLVED_IPV6_DG_MAC} ELSE {})

\* Mutant: the IPv6 family is not checked.
OnEventBitMask_SkipV6 ==
    IF RESOLVED_IPV4_DG_MAC \notin bitMask /\ ResolveIPv4DGMac.ok
    THEN bitMask \cup {RESOLVED_IPV4_DG_MAC} ELSE bitMask

\* the bitmask after the two per-family checks
OnEventBitMask ==
    LET ipv4DGResolved == RESOLVED_IPV4_DG_MAC \in bitMask
        ipv6DGResolved == RESOLVED_IPV6_DG_MAC \in bitMask
        m4 == IF ~ipv4DGResolved /\ ResolveIPv4DGMac.ok
              THEN bitMask \cup {RESOLVED_IPV4_DG_MAC} ELSE bitMask
        m6 == IF ~ipv6DGResolved /\ ResolveIPv6DGMac.ok
              THEN m4 \cup {RESOLVED_IPV6_DG_MAC} ELSE m4
    IN  m6

\* Mutant: one message per newly resolved family.
OnEventBroadcast_PerFamily(new) ==
    (IF RESOLVED_IPV4_DG_MAC \in new \ bitMask
     THEN <<[msg |-> MSG_DG_MAC_RESOLVED, a |-> new]>> ELSE <<>>)
    \o
    (IF RESOLVED_IPV6_DG_MAC \in new \ bitMask
     THEN <<[msg |-> MSG_DG_MAC_RESOLVED, a |-> new]>> ELSE <<>>)

\* the messages broadcast by one run that leaves the bitmask at `new`
OnEventBroadcast(new) ==
    LET broadcast == \/ RESOLVED_IPV4_DG_MAC \in new \ bitMask
                     \/ RESOLVED_IPV6_DG_MAC \in new \ bitMask
    IN  IF broadcast
        THEN <<[msg |-> MSG_DG_MAC_RESOLVED, a |-> new]>>
        ELSE <<>>

\* Mutant: the attempts test is off by one.
OnEventRestart_OffByOne(max, new) ==
    (resolveAttempts <= max) /\ (new # AllResolved)

\* Mutant: the timer is restarted although both families are resolved.
OnEventRestart_Always(max, new) ==
    resolveAttempts < max
\* whether the run restarts the timer
OnEventRestart(max, new) ==
    (resolveAttempts < max) /\ (new # AllResolved)

\* One run of OnEvent, called with maxResolveAttempts = max and the timer's
\* running flag = running.
OnEvent(max, running) ==
    LET new == OnEventBitMask IN
    /\ pre' = [bitMask |-> bitMask, resolveAttempts |-> resolveAttempts,
               timerIsRunning |-> running, nmsgs |-> Len(msgs)]
    /\ bitMask' = new
    /\ msgs' = msgs \o OnEventBroadcast(new)
    /\ IF OnEventRestart(max, new)
       THEN /\ resolveAttempts' = (resolveAttempts + 1) % 256
            /\ timerIsRunning' = TRUE
       ELSE /\ resolveAttempts' = resolveAttempts
            /\ timerIsRunning' = running
    /\ maxResolveAttempts' = max

-----------------------------------------------------------------------------
(* Operations on the client *)

\* AttemptResolve
AttemptResolve ==
    /\ ~removed
    /\ OnEvent(MaxResolveAttempts, timerIsRunning)
    /\ lastOp' = "start"
    /\ ticks' = 0
    /\ UNCHANGED <<ForceDGW, Ipv6ForceDGW, DGW, Ipv6DGW, Ipv6Router, removed,
                   everRes, removeCalls>>
    /\ UNCHANGED <<txVars, rxVars, codecVars>>

\* The timer collaborator fires the armed single-shot timer: OnEvent runs.
TimerTick ==
    /\ timerIsRunning
    /\ OnEvent(maxResolveAttempts, FALSE)
    /\ lastOp' = "tick"
    /\ ticks' = ticks + 1
    /\ UNCHANGED <<ForceDGW, Ipv6ForceDGW, DGW, Ipv6DGW, Ipv6Router, removed,
                   everRes, removeCalls>>
    /\ UNCHANGED <<txVars, rxVars, codecVars>>

\* Mutant: the timer is left armed.
OnRemove_NoStop ==
    /\ ~removed
    /\ removed' = TRUE
    /\ removeCalls' = <<"PluginCtx.OnRemove">>
    /\ lastOp' = "remove"
    /\ pre' = [bitMask |-> bitMask, resolveAttempts |-> resolveAttempts,
               timerIsRunning |-> timerIsRunning, nmsgs |-> Len(msgs)]
    /\ UNCHANGED <<ForceDGW, Ipv6ForceDGW, DGW, Ipv6DGW, Ipv6Router, bitMask,
                   resolveAttempts, maxResolveAttempts, timerIsRunning, msgs,
                   ticks, everRes>>
    /\ UNCHANGED <<txVars, rxVars, codecVars>>

\* OnRemove
OnRemove ==
    /\ ~removed
    /\ removed' = TRUE
    /\ timerIsRunning' = FALSE
    /\ removeCalls' = (IF timerIsRunning THEN <<"timerw.Stop">> ELSE <<>>)
                        \o <<"PluginCtx.OnRemove">>
    /\ lastOp' = "remove"
    /\ pre' = [bitMask |-> bitMask, resolveAttempts |-> resolveAttempts,
               timerIsRunning |-> timerIsRunning, nmsgs |-> Len(msgs)]
    /\ UNCHANGED <<ForceDGW, Ipv6ForceDGW, DGW, Ipv6DGW, Ipv6Router, bitMask,
                   resolveAttempts, maxResolveAttempts, msgs, ticks, everRes>>
    /\ UNCHANGED <<txVars, rxVars, codecVars>>

\* A protocol collaborator (ARP, ND, router advertisement) writes the
\* bindings.
WriteBindings(dgw, dgw6, router) ==
    /\ ~removed
    /\ <<dgw, dgw6, router>> # <<DGW, Ipv6DGW, Ipv6Router>>
    /\ DGW' = dgw
    /\ Ipv6DGW' = dgw6
    /\ Ipv6Router' = router
    /\ everRes' = everRes \cup Resolvable(dgw, dgw6, router)
    /\ lastOp' = "write"
    /\ UNCHANGED <<ForceDGW, Ipv6ForceDGW, bitMask, resolveAttempts,
                   maxResolveAttempts, timerIsRunning, removed, msgs, pre,
                   ticks, removeCalls>>
    /\ UNCHANGED <<txVars, rxVars, codecVars>>

WriteDGW == \E v \in DgValues(Bound4Mac) : WriteBindings(v, Ipv6DGW, Ipv6Router)

WriteIpv6DGW == \E v \in DgValues(Bound6Mac) : WriteBindings(DGW, v, Ipv6Router)

WriteIpv6Router == \E v \in RouterValues : WriteBindings(DGW, Ipv6DGW, v)

-----------------------------------------------------------------------------
(* Bytes and the wire format *)

(* A uint32 word is kept as its two 16-bit halves [hi, lo]: the values of  *)
(* the model checker's integers end at 2^31 - 1.                           *)

U8  == 2^8
U16 == 2^16

ZMQ_PACKET_HEADER_MAGIC == 48879

ZMQ_TX_PKT_BURST_SIZE == 64

ZMQ_TX_MAX_BUFFER_SIZE == 32 * 1024

\* the per-packet magic byte 0xAA
PktMagic == 170

\* binary.BigEndian.PutUint32
PutUint32(w) ==
    << w.hi \div U8, w.hi % U8, w.lo \div U8, w.lo % U8 >>

\* binary.BigEndian.Uint32 of the 4 bytes that follow offset `of` (0-based)
Uint32At(b, of) ==
    [hi |-> b[of + 1] * U8 + b[of + 2], lo |-> b[of + 3] * U8 + b[of + 4]]

\* x & 0xff, x & 0xffff
And8(x)  == x % U8
And16(x) == x % U16

-----------------------------------------------------------------------------
(* Mbuf and the buffer pool.  An Mbuf is a record                          *)
(*   [id, data, vport, contiguous]; m.PktLen() is Len(m.data).             *)
(* The transport state handed through the operators below is a record      *)
(*   [o, txSocket, MPool, panicked].                                       *)

PktLen(m) == Len(m.data)

\* MPool.Alloc(len), SetVPort, Append(b): a fresh contiguous Mbuf holding b
PoolAlloc(S, b, vport) ==
    [ S  |-> [S EXCEPT !.MPool = Append(S.MPool, 0)],
      m  |-> [id |-> Len(S.MPool) + 1, data |-> b, vport |-> vport,
              contiguous |-> TRUE] ]

\* m.FreeMbuf()
FreeMbuf(S, m) == [S EXCEPT !.MPool[m.id] = @ + 1]

\* m.FreeMbuf() for every m of ms
FreeAll(S, ms) ==
    [S EXCEPT !.MPool =
        [id \in DOMAIN S.MPool |->
            S.MPool[id] + Cardinality({i \in 1..Len(ms) : ms[i].id = id})]]

-----------------------------------------------------------------------------
(* VethIFZmq.FlushTx *)

\* Mutant: the virtual port is not masked to its low byte.
PktHeader_NoMask(m) ==
    [hi |-> (PktMagic * U8 + m.vport) % U16, lo |-> And16(PktLen(m))]
\* the 4-byte header of one packet:
\*   (0xAA << 24) + (vport & 0xff) << 16 + (pktLen & 0xffff)
PktHeader(m) ==
    [hi |-> (PktMagic * U8 + And8(m.vport)) % U16, lo |-> And16(PktLen(m))]

\* the 4-byte header of a message of n packets: (0xBEEF << 16) + n
MsgHeader(n) ==
    [hi |-> (ZMQ_PACKET_HEADER_MAGIC + n \div U16) % U16, lo |-> n % U16]

\* the packet entries appended to o.buf for the Mbufs ms[lo..hi], in order
RECURSIVE PacketBytesOf(_, _, _)
PacketBytesOf(ms, lo, hi) ==
    IF lo > hi THEN <<>>
    ELSE IF lo = hi THEN PutUint32(PktHeader(ms[lo])) \o ms[lo].data
    ELSE LET mid == (lo + hi) \div 2
         IN  PacketBytesOf(ms, lo, mid) \o PacketBytesOf(ms, mid + 1, hi)

PacketBytes(ms) == PacketBytesOf(ms, 1, Len(ms))

\* Mutant: the batch is not emptied.
FlushTx_KeepVec(S) ==
    IF Len(S.o.vec) = 0 THEN S
    ELSE LET buf   == PutUint32(MsgHeader(Len(S.o.vec))) \o PacketBytes(S.o.vec)
             freed == FreeAll(S, S.o.vec)
         IN  [freed EXCEPT !.o.stats.TxBatch = @ + 1,
                           !.o.txVecSize = 0,
                           !.txSocket = Append(@, buf)]

FlushTx(S) ==
    IF Len(S.o.vec) = 0 THEN S
    ELSE IF \E i \in 1..Len(S.o.vec) : ~S.o.vec[i].contiguous
    THEN [S EXCEPT !.panicked = TRUE]
    ELSE LET buf   == PutUint32(MsgHeader(Len(S.o.vec))) \o PacketBytes(S.o.vec)
             freed == FreeAll(S, S.o.vec)
         IN  [freed EXCEPT !.o.stats.TxBatch = @ + 1,
                           !.o.vec = <<>>,
                           !.o.txVecSize = 0,
                           !.txSocket = Append(@, buf)]

-----------------------------------------------------------------------------
(* VethIFZmq.Send.  txVecSize (uint32) and the byte counters (uint64) stay  *)
(* far below their widths: txVecSize is reset by every flush, and a flush  *)
(* precedes every append that would take it to 32 KiB.                     *)

\* Mutant: the burst test fires one frame late.
BurstFull_Late(n) == n > ZMQ_TX_PKT_BURST_SIZE

\* len(o.vec) == ZMQ_TX_PKT_BURST_SIZE
BurstFull(n) == n = ZMQ_TX_PKT_BURST_SIZE

\* Mutant: the byte test fires only above the ceiling.
BufferFull_Late(n) == n > ZMQ_TX_MAX_BUFFER_SIZE

\* o.txVecSize+pktlen >= ZMQ_TX_MAX_BUFFER_SIZE
BufferFull(n) == n >= ZMQ_TX_MAX_BUFFER_SIZE

Send(S, m) ==
    LET pktlen == PktLen(m)
        s1 == [S EXCEPT !.o.stats.TxPkts = @ + 1,
                        !.o.stats.TxBytes = @ + pktlen]
        s2 == IF BufferFull(s1.o.txVecSize + pktlen)
              THEN FlushTx(s1) ELSE s1
        s3 == IF ~m.contiguous
              THEN LET a == PoolAlloc(s2, m.data, m.vport)     \* GetContiguous
                   IN  [FreeMbuf(a.S, m) EXCEPT !.o.vec = Append(@, a.m)]
              ELSE [s2 EXCEPT !.o.vec = Append(@, m)]
        s4 == [s3 EXCEPT !.o.txVecSize = @ + pktlen]
    IN  IF s2.panicked THEN s2
        ELSE IF BurstFull(Len(s4.o.vec)) THEN FlushTx(s4) ELSE s4

-----------------------------------------------------------------------------
(* VethIFZmq.SendBuffer *)

\* copy(p[6:12], c.Mac[:]); copy(p[0:6], dgMac[:]) on a frame of >= 12 bytes
SetMacs(p, dgMac) ==
    [i \in 1..Len(p) |-> IF i <= 6 THEN dgMac[i]
                         ELSE IF i <= 12 THEN ClientMac[i - 6]
                         ELSE p[i]]

\* Mutant: the drop branch does not return.
SendBuffer_NoReturn(S, unicast, vport, b, ipv6) ==
    LET a  == PoolAlloc(S, b, vport)
        r  == IF ipv6 THEN ResolveIPv6DGMac ELSE ResolveIPv4DGMac
    IN  IF unicast /\ ~r.ok
        THEN Send([FreeMbuf(a.S, a.m) EXCEPT !.o.stats.TxDropNotResolve = @ + 1],
                  a.m)
        ELSE IF unicast
        THEN Send(a.S, [a.m EXCEPT !.data = SetMacs(@, r.mac)])
        ELSE Send(a.S, a.m)

\* SendBuffer(unicast, c, b, ipv6) for the client c of this model, whose
\* namespace has virtual port `vport`
SendBuffer(S, unicast, vport, b, ipv6) ==
    LET a  == PoolAlloc(S, b, vport)
        r  == IF ipv6 THEN ResolveIPv6DGMac ELSE ResolveIPv4DGMac
    IN  IF unicast /\ ~r.ok
        THEN [FreeMbuf(a.S, a.m) EXCEPT !.o.stats.TxDropNotResolve = @ + 1]
        ELSE IF unicast
        THEN Send(a.S, [a.m EXCEPT !.data = SetMacs(@, r.mac)])
        ELSE Send(a.S, a.m)

-----------------------------------------------------------------------------
(* The outbound operations as actions *)

\* the transport state as a record, and back
Veth == [o |-> o, txSocket |-> txSocket, MPool |-> MPool, panicked |-> panicked]

SetVeth(S) ==
    /\ o' = S.o
    /\ txSocket' = S.txSocket
    /\ MPool' = S.MPool
    /\ panicked' = S.panicked

\* what the observation keeps of the state an operation began in
TxPre == [vec |-> o.vec, txVecSize |-> o.txVecSize, stats |-> o.stats,
          nwire |-> Len(txSocket), npool |-> Len(MPool)]

\* the application calls Send with an Mbuf it allocated, holding `data`
DoSend(data, vport, contiguous) ==
    /\ ~panicked
    /\ LET a == PoolAlloc(Veth, data, vport)
       IN  SetVeth(Send(a.S, [a.m EXCEPT !.contiguous = contiguous]))
    /\ txLast' = [op |-> "Send", pre |-> TxPre,
                  m |-> [data |-> data, vport |-> vport,
                         contiguous |-> contiguous]]
    /\ sendCalls' = sendCalls + 1
    /\ UNCHANGED flushCalls
    /\ UNCHANGED <<clientVars, rxVars, codecVars>>

\* the application calls SendBuffer
DoSendBuffer(unicast, vport, b, ipv6) ==
    /\ ~panicked
    /\ SetVeth(SendBuffer(Veth, unicast, vport, b, ipv6))
    /\ txLast' = [op |-> "SendBuffer", unicast |-> unicast, ipv6 |-> ipv6,
                  pre |-> TxPre]
    /\ sendCalls' = sendCalls + o'.stats.TxPkts - o.stats.TxPkts
    /\ UNCHANGED flushCalls
    /\ UNCHANGED <<clientVars, rxVars, codecVars>>

\* the application calls FlushTx
DoFlushTx ==
    /\ ~panicked
    /\ SetVeth(FlushTx(Veth))
    /\ txLast' = [op |-> "FlushTx", pre |-> TxPre]
    /\ flushCalls' = flushCalls + 1
    /\ UNCHANGED sendCalls
    /\ UNCHANGED <<clientVars, rxVars, codecVars>>

\* the environment with USE_VYOS drawn from switches; no codec call made
InitEnv(switches) ==
    /\ useVyos \in switches
    /\ codec = [op |-> "none"]

\* VethIFZmq.Create, with proxyMode drawn from proxyModes
InitVeth(proxyModes) ==
    /\ o \in { [vec |-> <<>>, txVecSize |-> 0, proxyMode |-> pm,
                closed |-> FALSE,
                stats |-> [TxPkts |-> 0, TxBytes |-> 0, TxBatch |-> 0,
                           TxDropNotResolve |-> 0, RxPkts |-> 0, RxBytes |-> 0,
                           RxBatch |-> 0, RxParseErr |-> 0, RxZmqErr |-> 0]]
              : pm \in proxyModes }
    /\ txSocket = <<>>
    /\ MPool = <<>>
    /\ panicked = FALSE
    /\ txLast = [op |-> "Create"]
    /\ sendCalls = 0
    /\ flushCalls = 0

-----------------------------------------------------------------------------
(* TunnelKeyCodec: getTunnelKeyFromSlice / setTunnelKeyToSlice.            *)
(* A byte slice p is a record [b, len]: b holds the bytes from the start   *)
(* of the slice to the end of its backing array (cap(p) = Len(p.b)), len   *)
(* is len(p).  A slice expression p[lo:hi] is legal up to the capacity.    *)

\* layers.EthernetTypeDot1Q
EthernetTypeDot1Q == 33024

\* the length of CTunnelData.Vlans
TunnelVlans == 2

SliceOf(bytes) == [b |-> bytes, len |-> Len(bytes)]

Cap(p) == Len(p.b)

\* binary.BigEndian.Uint16 of the 2 bytes that follow offset `of` (0-based)
Uint16At(b, of) == b[of + 1] * U8 + b[of + 2]

ZeroWord == [hi |-> 0, lo |-> 0]

\* CTunnelKey.Set: the key bytes of a CTunnelData [Vport, Vlans]
TunnelKeySet(d) ==
    << 0, 0, d.Vport % U8, d.Vport \div U8 >>
    \o << d.Vlans[1].lo % U8, d.Vlans[1].lo \div U8,
          d.Vlans[1].hi % U8, d.Vlans[1].hi \div U8 >>
    \o << d.Vlans[2].lo % U8, d.Vlans[2].lo \div U8,
          d.Vlans[2].hi % U8, d.Vlans[2].hi \div U8 >>

\* CTunnelKey.Get
TunnelKeyGet(k) ==
    [ Vport |-> k[3] + k[4] * U8,
      Vlans |-> << [lo |-> k[5] + k[6] * U8, hi |-> k[7] + k[8] * U8],
                   [lo |-> k[9] + k[10] * U8, hi |-> k[11] + k[12] * U8] >> ]

\* a CTunnelData.Vlans value: TPID 0x8100 above the priority and the id
TagWord(pcp, id) == [hi |-> EthernetTypeDot1Q, lo |-> pcp * 8192 + id]

\* the CTunnelData of an ordered tag sequence and a virtual port
TunnelDataOf(tags, port) ==
    [Vport |-> port,
     Vlans |-> [i \in 1..TunnelVlans |->
                   IF i <= Len(tags) THEN tags[i] ELSE ZeroWord]]

\* the outcome of a slice or index expression out of range
CodecPanic == [panic |-> TRUE, over |-> TRUE, Vlans |-> <<ZeroWord, ZeroWord>>,
               offset |-> 0]

\* d.Vlans[vlanIndex] = val (vlanIndex 0-based, within the array)
GetTunnelStore(Vlans, vlanIndex, val) == [Vlans EXCEPT ![vlanIndex + 1] = val]

\* the loop of getTunnelKeyFromSlice; `over` records a read past len(p)
RECURSIVE GetTunnelLoop(_, _, _, _, _, _)
GetTunnelLoop(p, offset, nextHdr, vlanIndex, Vlans, over) ==
    IF nextHdr # EthernetTypeDot1Q
    THEN [panic |-> FALSE, over |-> over, Vlans |-> Vlans, offset |-> offset]
    ELSE IF (offset + 2) % U16 > Cap(p) \/ (offset - 2) % U16 > (offset + 2) % U16
    THEN CodecPanic                             \* p[offset-2 : offset+2]
    ELSE IF vlanIndex >= TunnelVlans
    THEN CodecPanic                             \* d.Vlans[vlanIndex]
    ELSE IF (offset + 4) % U16 > Cap(p) \/ (offset + 2) % U16 > (offset + 4) % U16
    THEN CodecPanic                             \* p[offset+2 : offset+4]
    ELSE GetTunnelLoop(p, (offset + 4) % U16, Uint16At(p.b, offset + 2),
                       vlanIndex + 1,
                       GetTunnelStore(Vlans, vlanIndex,
                                      Uint32At(p.b, offset - 2)),
                       over \/ offset + 4 > p.len)

\* getTunnelKeyFromSlice(p, port): [panic, over, key]
getTunnelKeyFromSlice(p, port) ==
    IF Cap(p) < 14 THEN [panic |-> TRUE, over |-> TRUE, key |-> <<>>] \* p[0:14]
    ELSE LET r == GetTunnelLoop(p, 14, Uint16At(p.b, 12), 0,
                                <<ZeroWord, ZeroWord>>, p.len < 14)
         IN  [panic |-> r.panic, over |-> r.over,
              key |-> IF r.panic THEN <<>>
                      ELSE TunnelKeySet([Vport |-> port, Vlans |-> r.Vlans])]

\* the first loop of setTunnelKeyToSlice: the offset behind the tags of p
RECURSIVE SetTunnelSkip(_, _, _)
SetTunnelSkip(p, offset, nextHdr) ==
    IF nextHdr # EthernetTypeDot1Q
    THEN [panic |-> FALSE, offset |-> offset]
    ELSE IF (offset + 4) % U16 > Cap(p) \/ (offset + 2) % U16 > (offset + 4) % U16
    THEN [panic |-> TRUE, offset |-> offset]    \* p[offset+2 : offset+4]
    ELSE SetTunnelSkip(p, (offset + 4) % U16, Uint16At(p.b, offset + 2))

\* binary.Write of the non-zero values of d.Vlans, big-endian
SetTunnelTags(Vlans) ==
    (IF Vlans[1] # ZeroWord THEN PutUint32(Vlans[1]) ELSE <<>>)
    \o (IF Vlans[2] # ZeroWord THEN PutUint32(Vlans[2]) ELSE <<>>)

\* Mutant: the tags of the frame are kept in front of the payload.
SetTunnelAfterVlan_KeepTags(p, offset) == SubSeq(p.b, 13, p.len)

\* afterVlan := p[offset-2:]
SetTunnelAfterVlan(p, offset) == SubSeq(p.b, offset - 2 + 1, p.len)

\* setTunnelKeyToSlice(ctk, p): [panic, new], new a slice
setTunnelKeyToSlice(ctk, p) ==
    IF Cap(p) < 14 THEN [panic |-> TRUE, new |-> SliceOf(<<>>)]    \* p[0:14]
    ELSE LET d == TunnelKeyGet(ctk)
             r == SetTunnelSkip(p, 14, Uint16At(p.b, 12))
         IN  IF r.panic \/ r.offset - 2 > p.len                    \* p[offset-2:]
             THEN [panic |-> TRUE, new |-> SliceOf(<<>>)]
             ELSE [panic |-> FALSE,
                   new |-> SliceOf(SubSeq(p.b, 1, 12)
                                   \o SetTunnelTags(d.Vlans)
                                   \o SetTunnelAfterVlan(p, r.offset))]

-----------------------------------------------------------------------------
(* The translation tables of the routing proxy *)

\* the virtual port of the proxy side
ToVyosPort == 2

\* the keys of the two sides of one translation: a tag 100 on port 1, and
\* the tags 200 and 7 on the proxy-side port
TrexKeyA == TunnelKeySet(TunnelDataOf(<<TagWord(0, 100)>>, 1))
VyosKeyA == TunnelKeySet(TunnelDataOf(<<TagWord(0, 200), TagWord(0, 7)>>,
                                      ToVyosPort))

\* the zero value of a CTunnelKey
ZeroKey == <<0, 0, 0, 0, 0, 0, 0, 0, 0, 0, 0, 0>>

TrexToVyosCTunnelKeyTable == [k \in {TrexKeyA} |-> VyosKeyA]

VyosToTrexCTunnelKeyTable == [k \in {VyosKeyA} |-> TrexKeyA]

\* GetCTunnelKeyForVyos(ctk): the key the table holds for ctk; it returns a
\* key and nothing else, the zero value when the table holds none
GetCTunnelKeyForVyos(ctk) ==
    IF ctk \in DOMAIN TrexToVyosCTunnelKeyTable
    THEN TrexToVyosCTunnelKeyTable[ctk]
    ELSE ZeroKey

\* CNSCtx.GetVport of a namespace with this key
NsGetVport(key) == TunnelKeyGet(key).Vport

-----------------------------------------------------------------------------
(* VethIFZmq.OnRx *)

\* Mutant: the packet is put in front of those already handed over.
OnRxHandOver_Front(out, m, via) == <<[m |-> m, via |-> via]>> \o out

\* the packets handed to the packet handler so far in this run, and m
OnRxHandOver(out, m, via) == Append(out, [m |-> m, via |-> via])

\* OnRx on the parse state P = [S, of, out, err, panic, stop]
OnRx(P, m) ==
    LET via == IF P.S.o.proxyMode THEN "cb.HandleRxPacket"
                                  ELSE "tctx.HandleRxPacket"
    IN  [P EXCEPT !.S.o.stats.RxPkts = @ + 1,
                  !.S.o.stats.RxBytes = @ + PktLen(m),
                  !.out = OnRxHandOver(@, m, via)]

-----------------------------------------------------------------------------
(* VethIFZmq.OnRxStream *)

RxParseErr(P) ==
    [P EXCEPT !.S.o.stats.RxParseErr = @ + 1, !.err = TRUE, !.stop = TRUE]

\* a slice expression with low > high: a run-time panic
RxPanic(P) ==
    [P EXCEPT !.S.panicked = TRUE, !.panic = TRUE, !.stop = TRUE]

\* the rewrite and forward of one packet, with USE_VYOS set: p is the slice
\* of the packet within the message
VyosForward(P, p, vport) ==
    LET ctk == getTunnelKeyFromSlice(p, vport) IN
    IF ctk.panic THEN RxPanic(P)
    ELSE IF vport # ToVyosPort % U8
    THEN LET vyosKey == GetCTunnelKeyForVyos(ctk.key)
             w       == setTunnelKeyToSlice(vyosKey, p)
         IN  IF w.panic THEN RxPanic(P)
             ELSE [P EXCEPT !.S = SendBuffer(@, FALSE, NsGetVport(vyosKey),
                                             w.new.b, FALSE)]
    ELSE IF ctk.key \notin DOMAIN VyosToTrexCTunnelKeyTable THEN P
    ELSE LET trexKey == VyosToTrexCTunnelKeyTable[ctk.key]
             w       == setTunnelKeyToSlice(trexKey, p)
         IN  IF w.panic THEN RxPanic(P)
             ELSE [P EXCEPT !.S = SendBuffer(@, FALSE, NsGetVport(trexKey),
                                             w.new.b, FALSE)]

\* the loop over the declared packets, from packet i, with `of` a uint16
RECURSIVE RxLoop(_, _, _, _)
RxLoop(P, stream, pkts, i) ==
    IF i >= pkts \/ P.stop THEN P
    ELSE
    LET blen == Len(stream)
        of   == P.of
        of4  == (of + 4) % U16
    IN  IF blen < of4 THEN RxParseErr(P)
        ELSE IF of > of4 THEN RxPanic(P)               \* stream[of : of+4]
        ELSE
        LET header == Uint32At(stream, of)
            vport  == header.hi % U8
            pktLen == header.lo
            end    == (of + 4 + pktLen) % U16
        IN  IF (header.hi \div U8) # PktMagic THEN RxParseErr(P)
            ELSE IF blen < end THEN RxParseErr(P)
            ELSE
            LET a == PoolAlloc(P.S, <<>>, vport)       \* Alloc, SetVPort
            IN  IF of4 > end                           \* stream[of+4 : of+4+pktLen]
                THEN RxPanic([P EXCEPT !.S = a.S])
                ELSE
                LET slice == SubSeq(stream, of4 + 1, end)
                    m     == [a.m EXCEPT !.data = slice]
                    P1    == OnRx([P EXCEPT !.S = a.S], m)
                    P2    == IF useVyos # "yes" THEN P1
                             ELSE VyosForward(P1,
                                      [b |-> SubSeq(stream, of4 + 1, blen),
                                       len |-> pktLen], vport)
                IN  RxLoop([P2 EXCEPT !.of = end], stream, pkts, i + 1)

\* OnRxStream(stream) from the transport state S: the parse state it ends in
OnRxStream(S, stream) ==
    LET P0 == [S |-> [S EXCEPT !.o.stats.RxBatch = @ + 1], of |-> 4,
               out |-> <<>>, err |-> FALSE, panic |-> FALSE, stop |-> FALSE]
    IN  IF Len(stream) < 4 THEN RxParseErr(P0)
        ELSE IF Uint32At(stream, 0).hi # ZMQ_PACKET_HEADER_MAGIC
        THEN RxParseErr(P0)
        ELSE RxLoop(P0, stream, Uint32At(stream, 0).lo, 0)

-----------------------------------------------------------------------------
(* The inbound path: rxThread, the channel o.cn and its consumer *)

\* bound: receive errors per behaviour
MaxRxErrs == 1

\* rxThread: RecvBytes returns the next message of the wire (the message
\* is kept with the number of receive errors that preceded it)
RxRecv ==
    /\ ~panicked
    /\ ~o.closed
    /\ rxPc = "recv"
    /\ rxSocket # <<>>
    /\ rxMsg' = [seq |-> Head(rxSocket).seq, bytes |-> Head(rxSocket).bytes,
                 errs |-> o.stats.RxZmqErr]
    /\ rxSocket' = Tail(rxSocket)
    /\ rxPc' = "send"
    /\ UNCHANGED <<cnMsg, rxErrs, cnLog, rxHandled, parseLog>>
    /\ UNCHANGED <<clientVars, txVars, codecVars>>

\* Mutant: a receive error ends the receive task.
RxRecvErr_Exit ==
    /\ ~panicked
    /\ ~o.closed
    /\ rxPc = "recv"
    /\ rxErrs < MaxRxErrs
    /\ rxErrs' = rxErrs + 1
    /\ rxPc' = "exit"
    /\ o' = [o EXCEPT !.stats.RxZmqErr = @ + 1]
    /\ UNCHANGED <<rxSocket, rxMsg, cnMsg, cnLog, rxHandled, parseLog>>
    /\ UNCHANGED <<txSocket, MPool, panicked, txLast, sendCalls, flushCalls>>
    /\ UNCHANGED <<clientVars, codecVars>>

\* rxThread: RecvBytes returns an error: sleep, count, and try again
RxRecvErr ==
    /\ ~panicked
    /\ ~o.closed
    /\ rxPc = "recv"
    /\ rxErrs < MaxRxErrs
    /\ rxErrs' = rxErrs + 1
    /\ o' = [o EXCEPT !.stats.RxZmqErr = @ + 1]
    /\ UNCHANGED <<rxSocket, rxPc, rxMsg, cnMsg, cnLog, rxHandled, parseLog>>
    /\ UNCHANGED <<txSocket, MPool, panicked, txLast, sendCalls, flushCalls>>
    /\ UNCHANGED <<clientVars, codecVars>>

\* o.cn <- msg meets the consumer's receive from GetC(): the channel is
\* unbuffered, the consumer is the single application thread
ChanHandOff ==
    /\ ~panicked
    /\ rxPc = "send"
    /\ cnMsg = Nil
    /\ cnMsg' = rxMsg
    /\ cnLog' = Append(cnLog, rxMsg.seq)
    /\ rxPc' = "recv"
    /\ UNCHANGED <<rxSocket, rxMsg, rxErrs, rxHandled, parseLog>>
    /\ UNCHANGED <<clientVars, txVars, codecVars>>

\* the consumer runs OnRxStream on the message it took
ConsumerOnRxStream ==
    /\ ~panicked
    /\ cnMsg # Nil
    /\ LET P == OnRxStream(Veth, cnMsg.bytes)
       IN  /\ SetVeth(P.S)
           /\ rxHandled' = rxHandled \o
                 [k \in 1..Len(P.out) |->
                     [seq |-> cnMsg.seq, idx |-> k, data |-> P.out[k].m.data,
                      vport |-> P.out[k].m.vport, via |-> P.out[k].via]]
           /\ parseLog' = Append(parseLog,
                 [seq |-> cnMsg.seq, stream |-> cnMsg.bytes, err |-> P.err,
                  parseErrs |-> P.S.o.stats.RxParseErr - o.stats.RxParseErr,
                  handled |-> Len(P.out), panic |-> P.panic])
    /\ cnMsg' = Nil
    /\ UNCHANGED <<rxSocket, rxPc, rxMsg, rxErrs, cnLog>>
    /\ UNCHANGED <<txLast, sendCalls, flushCalls>>
    /\ UNCHANGED <<clientVars, codecVars>>

\* StartRxThread on a transport whose peer sends the messages `wire`
InitRx(wire) ==
    /\ rxSocket = [k \in 1..Len(wire) |-> [seq |-> k, bytes |-> wire[k]]]
    /\ rxPc = "recv"
    /\ rxMsg = Nil
    /\ cnMsg = Nil
    /\ rxErrs = 0
    /\ cnLog = <<>>
    /\ rxHandled = <<>>
    /\ parseLog = <<>>

-----------------------------------------------------------------------------
(* VethIFZmq.SimulatorCleanup *)

\* Mutant: the pending Mbufs are not freed.
SimulatorCleanup_NoFree(S) ==
    [S EXCEPT !.o.vec = <<>>, !.o.closed = TRUE]

\* SimulatorCleanup: free every Mbuf of o.vec, o.vec = nil, close the
\* sockets, terminate the contexts
SimulatorCleanup(S) ==
    [FreeAll(S, S.o.vec) EXCEPT !.o.vec = <<>>, !.o.closed = TRUE]

\* the calls SimulatorCleanup makes on its collaborators, in order
SimulatorCleanupCalls(S) ==
    [i \in 1..Len(S.o.vec) |-> [call |-> "FreeMbuf", id |-> S.o.vec[i].id]]
    \o << [call |-> "rxSocket.Close", id |-> 0],
          [call |-> "txSocket.Close", id |-> 0],
          [call |-> "rxCtx.Term", id |-> 0],
          [call |-> "txCtx.Term", id |-> 0] >>

\* the application tears the transport down
DoSimulatorCleanup ==
    /\ ~panicked
    /\ ~o.closed
    /\ SetVeth(SimulatorCleanup(Veth))
    /\ txLast' = [op |-> "SimulatorCleanup", pre |-> TxPre,
                  calls |-> SimulatorCleanupCalls(Veth)]
    /\ UNCHANGED <<sendCalls, flushCalls>>
    /\ UNCHANGED <<clientVars, rxVars, codecVars>>

\* bound: receive attempts on the closed socket per behaviour
MaxClosedRecvs == 2

\* rxThread: RecvBytes on the closed socket returns an error: sleep, count,
\* and try again
RxRecvClosed ==
    /\ ~panicked
    /\ o.closed
    /\ rxPc = "recv"
    /\ rxErrs < MaxRxErrs + MaxClosedRecvs
    /\ rxErrs' = rxErrs + 1
    /\ o' = [o EXCEPT !.stats.RxZmqErr = @ + 1]
    /\ UNCHANGED <<rxSocket, rxPc, rxMsg, cnMsg, cnLog, rxHandled, parseLog>>
    /\ UNCHANGED <<txSocket, MPool, panicked, txLast, sendCalls, flushCalls>>
    /\ UNCHANGED <<clientVars, codecVars>>

-----------------------------------------------------------------------------
(* The client specification *)

\* NewClient / NewClientCmd, then the bindings as the collaborators wrote
\* them
InitClientIn(forced, dgws, dgw6s, routers) ==
    /\ ForceDGW \in forced
    /\ Ipv6ForceDGW \in forced
    /\ DGW \in dgws
    /\ Ipv6DGW \in dgw6s
    /\ Ipv6Router \in routers
    /\ bitMask = {}
    /\ resolveAttempts = 0
    /\ maxResolveAttempts = 0
    /\ timerIsRunning = FALSE
    /\ removed = FALSE
    /\ msgs = <<>>
    /\ lastOp = "new"
    /\ pre = [bitMask |-> {}, resolveAttempts |-> 0, timerIsRunning |-> FALSE,
              nmsgs |-> 0]
    /\ ticks = 0
    /\ everRes = Resolvable(DGW, Ipv6DGW, Ipv6Router)
    /\ removeCalls = <<>>

\* NewClient / NewClientCmd: no binding yet
InitClient == InitClientIn(BOOLEAN, {Nil}, {Nil}, {Nil})

Init ==
    /\ InitClient
    /\ InitVeth({FALSE})
    /\ InitEnv({""})
    /\ InitRx(<<>>)

Next ==
    \/ AttemptResolve
    \/ TimerTick
    \/ OnRemove
    \/ WriteDGW
    \/ WriteIpv6DGW
    \/ WriteIpv6Router

Spec == Init /\ [][Next]_vars

-----------------------------------------------------------------------------
(* The outbound specification: a client with bindings as the collaborators *)
(* left them, and an application that calls Send, SendBuffer and FlushTx   *)

\* bound: outbound operations per behaviour
MaxTxOps == 3

TxOps == sendCalls + flushCalls + o.stats.TxDropNotResolve

\* n payload bytes that identify the frame
FrameData(tag, n) == [i \in 1..n |-> (16 * tag + i) % U8]

\* a broadcast Ethernet frame (IPv4) with one byte of payload
EthFrame(tag) ==
    <<255, 255, 255, 255, 255, 255, 0, 0, 0, 0, 0, 0, 8, 0>> \o <<tag % U8>>

\* the Mbufs the application hands to Send: [len, vport, contiguous]
TxSendInputs ==
    { [len |-> 0,  vport |-> 1,   contiguous |-> TRUE],
      [len |-> 15, vport |-> 1,   contiguous |-> TRUE],
      [len |-> 15, vport |-> 257, contiguous |-> FALSE] }

TxSend ==
    \E f \in TxSendInputs :
        /\ TxOps < MaxTxOps
        /\ DoSend(FrameData(TxOps + 1, f.len), f.vport, f.contiguous)

TxSendBuffer ==
    \E unicast \in BOOLEAN, ipv6 \in BOOLEAN :
        /\ TxOps < MaxTxOps
        /\ DoSendBuffer(unicast, 1, EthFrame(TxOps + 1), ipv6)

TxFlushTx ==
    /\ TxOps < MaxTxOps
    /\ DoFlushTx

InitTx ==
    /\ InitClientIn(BOOLEAN, DgValues(Bound4Mac), {Nil}, RouterValues)
    /\ InitVeth({FALSE})
    /\ InitEnv({""})
    /\ InitRx(<<>>)

NextTx ==
    \/ TxSend
    \/ TxSendBuffer
    \/ TxFlushTx

SpecTx == InitTx /\ [][NextTx]_vars

-----------------------------------------------------------------------------
(* The resolver specification: a client with every combination of force    *)
(* flags and bindings, and an application that sends unicast frames        *)

\* bound: unicast frames sent per behaviour
MaxResolveSends == 2

ResolveSendBuffer ==
    \E ipv6 \in BOOLEAN :
        /\ TxOps < MaxResolveSends
        /\ DoSendBuffer(TRUE, 1, EthFrame(TxOps + 1), ipv6)

InitResolve ==
    /\ InitClientIn(BOOLEAN, DgValues(Bound4Mac), DgValues(Bound6Mac),
                    RouterValues)
    /\ InitVeth({FALSE})
    /\ InitEnv({""})
    /\ InitRx(<<>>)

NextResolve == ResolveSendBuffer

SpecResolve == InitResolve /\ [][NextResolve]_vars

-----------------------------------------------------------------------------
(* The burst specification: the application sends contiguous frames of     *)
(* BurstFrameLen bytes and may call FlushTx                                *)

\* bounds: the frames sent, the application's FlushTx calls, the frame size
MaxBurstSends == 65
MaxBurstFlushes == 1
BurstFrameLen == 100

BurstSend ==
    /\ sendCalls < MaxBurstSends
    /\ DoSend(FrameData(sendCalls + 1, BurstFrameLen), 1, TRUE)

BurstFlushTx ==
    /\ flushCalls < MaxBurstFlushes
    /\ DoFlushTx

InitBurst ==
    /\ InitClientIn({FALSE}, {Nil}, {Nil}, {Nil})
    /\ InitVeth({FALSE})
    /\ InitEnv({""})
    /\ InitRx(<<>>)

NextBurst ==
    \/ BurstSend
    \/ BurstFlushTx

SpecBurst == InitBurst /\ [][NextBurst]_vars

-----------------------------------------------------------------------------
(* The large-frame specification: the application sends contiguous frames  *)
(* of lengths up to 65535 bytes and may call FlushTx                       *)

\* bounds: the frames sent and the application's FlushTx calls
MaxBigSends == 2
MaxBigFlushes == 1

\* the frame lengths: empty, short, and around and above the byte ceiling
BigFrameLens == {0, 1, ZMQ_TX_MAX_BUFFER_SIZE - 1, ZMQ_TX_MAX_BUFFER_SIZE,
                 U16 - 1}

BigSend ==
    \E n \in BigFrameLens :
        /\ sendCalls < MaxBigSends
        /\ DoSend(FrameData(sendCalls + 1, n), 1, TRUE)

BigFlushTx ==
    /\ flushCalls < MaxBigFlushes
    /\ DoFlushTx

InitBig ==
    /\ InitClientIn({FALSE}, {Nil}, {Nil}, {Nil})
    /\ InitVeth({FALSE})
    /\ InitEnv({""})
    /\ InitRx(<<>>)

NextBig ==
    \/ BigSend
    \/ BigFlushTx

SpecBig == InitBig /\ [][NextBig]_vars

-----------------------------------------------------------------------------
(* The resolution specification with a timer that fires: the client of     *)
(* Spec, a timer collaborator that fires every armed timer, and an         *)
(* application that sends unicast frames once the retries are exhausted    *)

\* bound: unicast frames handed to SendBuffer
MaxLiveSends == 1

LiveSendBuffer ==
    \E ipv6 \in BOOLEAN :
        /\ sendCalls + o.stats.TxDropNotResolve < MaxLiveSends
        /\ ~removed
        /\ ~timerIsRunning
        /\ maxResolveAttempts > 0
        /\ resolveAttempts >= maxResolveAttempts
        /\ DoSendBuffer(TRUE, 1, EthFrame(1), ipv6)

NextResolveLive ==
    \/ AttemptResolve
    \/ TimerTick
    \/ OnRemove
    \/ WriteDGW
    \/ WriteIpv6DGW
    \/ WriteIpv6Router
    \/ LiveSendBuffer

SpecResolveLive == Init /\ [][NextResolveLive]_vars /\ WF_vars(TimerTick)

-----------------------------------------------------------------------------
(* The conservation specification: the application has sent               *)
(* ConservePending short frames, which are pending, and goes on to send    *)
(* short, non-contiguous and long frames and to call FlushTx               *)

\* bounds: the frames pending at the start and their length, the frames
\* sent after them, the application's FlushTx calls
ConservePending == 62
ConservePendingLen == 2
MaxConserveSends == 3
MaxConserveFlushes == 2

\* the transport after Send was called with n < 64 short contiguous frames,
\* the k-th in the k-th buffer of the pool: all are pending
ConserveStart(n) ==
    [o |-> [vec |-> [k \in 1..n |->
                       [id |-> k, data |-> FrameData(k, ConservePendingLen),
                        vport |-> 1, contiguous |-> TRUE]],
            txVecSize |-> n * ConservePendingLen, proxyMode |-> FALSE,
            closed |-> FALSE,
            stats |-> [TxPkts |-> n, TxBytes |-> n * ConservePendingLen,
                       TxBatch |-> 0, TxDropNotResolve |-> 0, RxPkts |-> 0,
                       RxBytes |-> 0, RxBatch |-> 0, RxParseErr |-> 0,
                       RxZmqErr |-> 0]],
     txSocket |-> <<>>, MPool |-> [k \in 1..n |-> 0], panicked |-> FALSE]

\* the Mbufs the application hands to Send: short and contiguous, short and
\* not contiguous with a virtual port above 255, and of the length that
\* takes the pending frames to the byte ceiling
ConserveInputs ==
    { [len |-> ConservePendingLen, vport |-> 1, contiguous |-> TRUE],
      [len |-> ConservePendingLen, vport |-> 257, contiguous |-> FALSE],
      [len |-> ZMQ_TX_MAX_BUFFER_SIZE - ConservePending * ConservePendingLen,
       vport |-> 1, contiguous |-> TRUE] }

ConserveSend ==
    \E f \in ConserveInputs :
        /\ sendCalls < ConservePending + MaxConserveSends
        /\ DoSend(FrameData(sendCalls + 1, f.len), f.vport, f.contiguous)

ConserveFlushTx ==
    /\ flushCalls < MaxConserveFlushes
    /\ DoFlushTx

InitConserve ==
    /\ InitClientIn({FALSE}, {Nil}, {Nil}, {Nil})
    /\ LET S == ConserveStart(ConservePending)
       IN  /\ o = S.o
           /\ txSocket = S.txSocket
           /\ MPool = S.MPool
           /\ panicked = S.panicked
    /\ txLast = [op |-> "Create"]
    /\ sendCalls = ConservePending
    /\ flushCalls = 0
    /\ InitEnv({""})
    /\ InitRx(<<>>)

NextConserve ==
    \/ ConserveSend
    \/ ConserveFlushTx

SpecConserve == InitConserve /\ [][NextConserve]_vars

-----------------------------------------------------------------------------
(* The inbound specification: the peer has sent up to MaxRxMsgs messages,  *)
(* well-formed or not                                                      *)

\* bound: messages on the wire
MaxRxMsgs == 2

\* one packet entry and one message, as the peer may write them
RxPkt(magic, vport, len, payload) ==
    PutUint32([hi |-> magic * U8 + vport, lo |-> len]) \o payload

RxMsgOf(magic, n, body) == PutUint32([hi |-> magic, lo |-> n]) \o body

RxPktA == RxPkt(PktMagic, 1, 2, <<17, 18>>)
RxPktB == RxPkt(PktMagic, 2, 1, <<33>>)

\* the messages the peer may send
RxStreams ==
    { RxMsgOf(ZMQ_PACKET_HEADER_MAGIC, 1, RxPktA),
      RxMsgOf(ZMQ_PACKET_HEADER_MAGIC, 2, RxPktA \o RxPktB),
      RxMsgOf(ZMQ_PACKET_HEADER_MAGIC, 0, <<>>),
      \* shorter than the message header
      <<190, 239, 0>>,
      \* bad header magic
      RxMsgOf(ZMQ_PACKET_HEADER_MAGIC - 1, 1, RxPktA),
      \* the declared packet count runs past the message
      RxMsgOf(ZMQ_PACKET_HEADER_MAGIC, 2, RxPktA),
      \* a declared packet length runs past the message
      RxMsgOf(ZMQ_PACKET_HEADER_MAGIC, 1, RxPkt(PktMagic, 1, 5, <<17, 18>>)),
      RxMsgOf(ZMQ_PACKET_HEADER_MAGIC, 2,
              RxPktA \o RxPkt(PktMagic, 2, 9, <<33>>)),
      RxMsgOf(ZMQ_PACKET_HEADER_MAGIC, 1, RxPkt(PktMagic, 1, U16 - 1, <<17>>)),
      \* bad per-packet magic
      RxMsgOf(ZMQ_PACKET_HEADER_MAGIC, 1, RxPkt(PktMagic + 1, 1, 2, <<17, 18>>)),
      RxMsgOf(ZMQ_PACKET_HEADER_MAGIC, 2,
              RxPktA \o RxPkt(PktMagic + 1, 2, 1, <<33>>)) }

RECURSIVE SeqsUpTo(_, _)
SeqsUpTo(S, n) ==
    IF n = 0 THEN { <<>> }
    ELSE LET shorter == SeqsUpTo(S, n - 1)
         IN  shorter \cup { Append(q, x) : q \in shorter, x \in S }

InitRxSpec ==
    /\ InitClientIn({FALSE}, {Nil}, {Nil}, {Nil})
    /\ InitVeth(BOOLEAN)
    /\ InitEnv({""})
    /\ \E wire \in SeqsUpTo(RxStreams, MaxRxMsgs) : InitRx(wire)

NextRx ==
    \/ RxRecv
    \/ RxRecvErr
    \/ ChanHandOff
    \/ ConsumerOnRxStream

SpecRx == InitRxSpec /\ [][NextRx]_vars

-----------------------------------------------------------------------------
(* The teardown specification: the application sends frames, may flush,    *)
(* and tears the transport down while the receive task runs                *)

\* bounds: the frames sent, the application's FlushTx calls, the messages
\* on the wire
MaxDownSends == 2
MaxDownFlushes == 1
MaxDownMsgs == 1

DownSend ==
    /\ ~o.closed
    /\ sendCalls < MaxDownSends
    /\ DoSend(FrameData(sendCalls + 1, 2), 1, TRUE)

DownFlushTx ==
    /\ ~o.closed
    /\ flushCalls < MaxDownFlushes
    /\ DoFlushTx

\* the well-formed messages the peer sends
DownStreams ==
    { RxMsgOf(ZMQ_PACKET_HEADER_MAGIC, 1, RxPktA),
      RxMsgOf(ZMQ_PACKET_HEADER_MAGIC, 2, RxPktA \o RxPktB) }

InitDown ==
    /\ InitClientIn({FALSE}, {Nil}, {Nil}, {Nil})
    /\ InitVeth({FALSE})
    /\ InitEnv({""})
    /\ \E wire \in SeqsUpTo(DownStreams, MaxDownMsgs) : InitRx(wire)

NextDown ==
    \/ DownSend
    \/ DownFlushTx
    \/ DoSimulatorCleanup
    \/ RxRecv
    \/ RxRecvErr
    \/ RxRecvClosed
    \/ ChanHandOff
    \/ ConsumerOnRxStream

SpecDown == InitDown /\ [][NextDown]_vars

SpecDownLive ==
    /\ SpecDown
    /\ WF_vars(RxRecv)
    /\ WF_vars(RxRecvClosed)
    /\ WF_vars(ChanHandOff)
    /\ WF_vars(ConsumerOnRxStream)

-----------------------------------------------------------------------------
(* The inbound specification with its scheduling: the receive task and the *)
(* consumer are goroutines that run whenever they can; the peer sends      *)
(* messages the parser returns from                                        *)

\* bound: messages on the wire
MaxLiveMsgs == 2

\* a well-formed message, and one whose packet count runs past its end
LiveStreams ==
    { RxMsgOf(ZMQ_PACKET_HEADER_MAGIC, 2, RxPktA \o RxPktB),
      RxMsgOf(ZMQ_PACKET_HEADER_MAGIC, 2, RxPktA) }

InitRxLive ==
    /\ InitClientIn({FALSE}, {Nil}, {Nil}, {Nil})
    /\ InitVeth({FALSE})
    /\ InitEnv({""})
    /\ \E wire \in SeqsUpTo(LiveStreams, MaxLiveMsgs) : InitRx(wire)

SpecRxLive ==
    /\ InitRxLive
    /\ [][NextRx]_vars
    /\ WF_vars(RxRecv)
    /\ WF_vars(ChanHandOff)
    /\ WF_vars(ConsumerOnRxStream)

-----------------------------------------------------------------------------
(* The codec specification: a frame, well-formed or not, is decoded, or    *)
(* rewritten with a TunnelKey and then decoded                             *)

\* an Ethernet header's two addresses
CodecMacs == <<1, 1, 1, 1, 1, 1, 2, 2, 2, 2, 2, 2>>

\* the 4 bytes of an 802.1Q tag: TPID 0x8100, priority, id
TagBytes(pcp, id) == <<129, 0, pcp * 32 + id \div U8, id % U8>>

\* EtherType IPv4 and one byte of payload
CodecPayload == <<8, 0, 69>>

\* the frames: 0 to 3 tags, frames that end inside a tag, and a frame that
\* ends inside a tag and lies in front of other bytes of its backing array
CodecFrames ==
    { SliceOf(CodecMacs \o CodecPayload),
      SliceOf(CodecMacs \o TagBytes(1, 9) \o CodecPayload),
      SliceOf(CodecMacs \o TagBytes(1, 9) \o TagBytes(0, 10) \o CodecPayload),
      SliceOf(CodecMacs \o TagBytes(1, 9) \o TagBytes(0, 10)
              \o TagBytes(0, 11) \o CodecPayload),
      SliceOf(CodecMacs \o TagBytes(1, 9)),
      SliceOf(CodecMacs \o <<129, 0>>),
      [b |-> CodecMacs \o TagBytes(1, 9) \o TagBytes(0, 10) \o CodecPayload,
       len |-> 16] }

\* the tags a TunnelKey is built from
CodecTags == { TagWord(0, 5), TagWord(5, 5), TagWord(0, 4095), TagWord(3, 0) }

\* bound: the length of a tag sequence (the capacity of CTunnelData.Vlans)
CodecTagSeqs == SeqsUpTo(CodecTags, TunnelVlans)

CodecPorts == {0, 1, U16 - 1}

CodecRewrite ==
    /\ codec.op = "input"
    /\ LET w == setTunnelKeyToSlice(codec.key, codec.p)
       IN  codec' = [codec EXCEPT !.op = "rewritten", !.p = w.new,
                                  !.panic = w.panic]
    /\ UNCHANGED <<clientVars, txVars, rxVars, useVyos>>

CodecDecode ==
    /\ codec.op \in {"input", "rewritten"}
    /\ ~codec.panic
    /\ LET g == getTunnelKeyFromSlice(codec.p, codec.port)
       IN  codec' = [codec EXCEPT
                        !.op = IF @ = "input" THEN "decoded" ELSE "roundtrip",
                        !.got = g.key, !.panic = g.panic, !.over = g.over]
    /\ UNCHANGED <<clientVars, txVars, rxVars, useVyos>>

InitCodec ==
    /\ InitClientIn({FALSE}, {Nil}, {Nil}, {Nil})
    /\ InitVeth({FALSE})
    /\ InitRx(<<>>)
    /\ useVyos = ""
    /\ codec \in { [op |-> "input", p |-> f, tags |-> t, port |-> v,
                    key |-> TunnelKeySet(TunnelDataOf(t, v)),
                    got |-> <<>>, panic |-> FALSE, over |-> FALSE]
                   : f \in CodecFrames, t \in CodecTagSeqs, v \in CodecPorts }

NextCodec ==
    \/ CodecRewrite
    \/ CodecDecode

SpecCodec == InitCodec /\ [][NextCodec]_vars

-----------------------------------------------------------------------------
(* The wire round-trip specification: a batch of frames of lengths up to   *)
(* 65535 bytes is sent with Send and flushed, and every message that was   *)
(* transmitted is passed to OnRxStream.  The state keeps the frames'       *)
(* lengths and ports and what the parser made of them, not the bytes.      *)

\* bound: the frames of a batch
MaxWireFrames == 3

\* the Mbufs handed to Send: [len, vport], with the longest frame, the
\* frame that ends at offset 65535 of its message and the one that ends at
\* offset 65536
WireInputs ==
    { [len |-> 0,       vport |-> 1],
      [len |-> 2,       vport |-> 257],
      [len |-> U16 - 9, vport |-> 1],
      [len |-> U16 - 8, vport |-> 1],
      [len |-> U16 - 1, vport |-> 1] }

\* Send called with the frames k.. of fs, the k-th holding FrameData(k, len)
RECURSIVE WireSendAll(_, _, _)
WireSendAll(S, fs, k) ==
    IF k > Len(fs) THEN S
    ELSE LET a == PoolAlloc(S, FrameData(k, fs[k].len), fs[k].vport)
         IN  WireSendAll(Send(a.S, a.m), fs, k + 1)

\* OnRxStream called with the messages k.. of sock, until a panic: the
\* parse states, in order
RECURSIVE WireParseAll(_, _, _)
WireParseAll(S, sock, k) ==
    IF k > Len(sock) \/ S.panicked THEN <<>>
    ELSE LET P == OnRxStream(S, sock[k])
         IN  <<P>> \o WireParseAll(P.S, sock, k + 1)

\* the packets handed over by the parse states Ps[k..], in order
RECURSIVE WireHandedOver(_, _)
WireHandedOver(Ps, k) ==
    IF k > Len(Ps) THEN <<>>
    ELSE [i \in 1..Len(Ps[k].out) |-> Ps[k].out[i].m]
         \o WireHandedOver(Ps, k + 1)

\* the batch is sent and flushed (S), its messages are parsed (Ps) and the
\* packets handed over are collected (hs)
WireRoundTrip ==
    /\ codec.op = "batch"
    /\ \E S \in {FlushTx(WireSendAll(Veth, codec.frames, 1))} :
       \E Ps \in {WireParseAll(S, S.txSocket, 1)} :
       \E hs \in {WireHandedOver(Ps, 1)} :
          codec' =
             [op |-> "parsed", frames |-> codec.frames,
              sent |-> [k \in 1..Len(S.txSocket) |->
                          [len |-> Len(S.txSocket[k]),
                           pkts |-> Uint32At(S.txSocket[k], 0).lo]],
              runs |-> [k \in 1..Len(Ps) |->
                          [err |-> Ps[k].err, panic |-> Ps[k].panic,
                           handled |-> Len(Ps[k].out)]],
              out |-> [i \in 1..Len(hs) |->
                          [vport |-> hs[i].vport, len |-> PktLen(hs[i]),
                           intact |-> /\ i <= Len(codec.frames)
                                      /\ hs[i].data
                                            = FrameData(i, codec.frames[i].len)]]]
    /\ UNCHANGED <<clientVars, txVars, rxVars, useVyos>>

InitWire ==
    /\ InitClientIn({FALSE}, {Nil}, {Nil}, {Nil})
    /\ InitVeth({FALSE})
    /\ InitRx(<<>>)
    /\ useVyos = ""
    /\ codec \in { [op |-> "batch", frames |-> fs]
                   : fs \in SeqsUpTo(WireInputs, MaxWireFrames) }

NextWire == WireRoundTrip

SpecWire == InitWire /\ [][NextWire]_vars

-----------------------------------------------------------------------------
(* The routing specification: the peer sends tagged frames of both sides,  *)
(* with and without a translation, and USE_VYOS is set or not              *)

\* bound: messages on the wire
MaxVyosMsgs == 2

\* a frame with the given tag bytes
VyosFrame(tagBytes) == CodecMacs \o tagBytes \o CodecPayload

\* packets of port 1 with and without a translation, and of the proxy-side
\* port with and without one
VyosPktA == RxPkt(PktMagic, 1, 19, VyosFrame(TagBytes(0, 100)))
VyosPktB == RxPkt(PktMagic, 1, 19, VyosFrame(TagBytes(0, 300)))
VyosPktC == RxPkt(PktMagic, ToVyosPort, 23,
                  VyosFrame(TagBytes(0, 200) \o TagBytes(0, 7)))
VyosPktD == RxPkt(PktMagic, ToVyosPort, 19, VyosFrame(TagBytes(0, 9)))

VyosStreams ==
    { RxMsgOf(ZMQ_PACKET_HEADER_MAGIC, 1, VyosPktA),
      RxMsgOf(ZMQ_PACKET_HEADER_MAGIC, 1, VyosPktB),
      RxMsgOf(ZMQ_PACKET_HEADER_MAGIC, 1, VyosPktC),
      RxMsgOf(ZMQ_PACKET_HEADER_MAGIC, 1, VyosPktD),
      RxMsgOf(ZMQ_PACKET_HEADER_MAGIC, 2, VyosPktC \o VyosPktD) }

InitVyos ==
    /\ InitClientIn({FALSE}, {Nil}, {Nil}, {Nil})
    /\ InitVeth({TRUE})
    /\ InitEnv({"", "yes"})
    /\ \E wire \in SeqsUpTo(VyosStreams, MaxVyosMsgs) : InitRx(wire)

SpecVyos == InitVyos /\ [][NextRx]_vars

-----------------------------------------------------------------------------
(* Properties of the client (checked under Spec) *)

\* C1: the resolved-bitmask is monotonic: over any sequence of AttemptResolve,
\* timer ticks, OnRemove and collaborator writes to the bindings (a binding
\* may go from resolved back to unresolved), every bit set in one state is
\* still set in the next.
C1_BitMaskMonotonic == [][bitMask \subseteq bitMask']_vars

\* a tick has run with the IPv4 bit set although the resolver now reports
\* IPv4 unresolved (the binding went back)
C1_Witness ==
    /\ lastOp = "tick"
    /\ RESOLVED_IPV4_DG_MAC \in bitMask
    /\ ~ResolveIPv4DGMac.ok

\* C2: every run of OnEvent emits exactly one MSG_DG_MAC_RESOLVED carrying
\* the updated bitmask if at least one bit is newly set in that run (one, not
\* two, when both families resolve in the same run) and none otherwise.
C2_OneNotificationPerRun ==
    lastOp \in {"start", "tick"} =>
        IF bitMask # pre.bitMask
        THEN /\ Len(msgs) = pre.nmsgs + 1
             /\ msgs[Len(msgs)] = [msg |-> MSG_DG_MAC_RESOLVED, a |-> bitMask]
        ELSE Len(msgs) = pre.nmsgs

\* both families resolved in one tick
C2_Witness ==
    /\ lastOp = "tick"
    /\ pre.bitMask = {}
    /\ bitMask = AllResolved
    /\ Len(msgs) = 1

\* C3: the retry counter never exceeds 5; for a family that never had a
\* forced, bound or router-learned gateway, after 5 ticks following start the
\* retry counter is 5, the timer is stopped and the family's bit is unset; a
\* run that begins with the retry counter at 5 does not arm the timer.
C3_RetriesBounded ==
    /\ resolveAttempts <= 5
    /\ \A f \in AllResolved :
          (f \notin everRes /\ ticks = 5) =>
              /\ resolveAttempts = 5
              /\ ~timerIsRunning
              /\ f \notin bitMask
    /\ (lastOp \in {"start", "tick"} /\ pre.resolveAttempts = 5) =>
          timerIsRunning = pre.timerIsRunning

\* the fifth tick of a client whose IPv4 gateway was never resolvable
C3_Witness ==
    /\ lastOp = "tick"
    /\ ticks = 5
    /\ RESOLVED_IPV4_DG_MAC \notin everRes
    /\ resolveAttempts = 5
    /\ ~timerIsRunning

\* C4 as stated: with the IPv4 force flag set, whatever the IPv6
\* configuration, the check made by start sets the IPv4 bit and leaves the
\* retry counter at 0.
C4_ForcedV4ZeroRetries ==
    (lastOp = "start" /\ ForceDGW) =>
        (RESOLVED_IPV4_DG_MAC \in bitMask /\ resolveAttempts = 0)

\* C4 (amended): with the IPv4 force flag set, the check made by start sets
\* the IPv4 bit; it consumes no retry and leaves the timer as it was when
\* IPv6 is resolved as well by that check, and consumes one retry (unless the
\* counter is already 5) and arms the timer when IPv6 is still unresolved.
C4_ForcedV4FirstCheck ==
    (lastOp = "start" /\ ForceDGW) =>
        /\ RESOLVED_IPV4_DG_MAC \in bitMask
        /\ IF bitMask = AllResolved
           THEN /\ resolveAttempts = pre.resolveAttempts
                /\ timerIsRunning = pre.timerIsRunning
           ELSE IF pre.resolveAttempts < 5
                THEN /\ resolveAttempts = pre.resolveAttempts + 1
                     /\ timerIsRunning
                ELSE /\ resolveAttempts = pre.resolveAttempts
                     /\ timerIsRunning = pre.timerIsRunning

\* first start of a client with forced IPv4 and unresolved IPv6: one retry
\* consumed
C4_Witness ==
    /\ lastOp = "start"
    /\ ForceDGW
    /\ pre.resolveAttempts = 0
    /\ bitMask = {RESOLVED_IPV4_DG_MAC}
    /\ resolveAttempts = 1
    /\ timerIsRunning

\* C5: AttemptResolve, from whatever state it is called in, resets the retry
\* counter to 0, sets max-retries to 5 and performs one resolution check
\* before the timer is armed (so the counter is 0 after it when both families
\* are resolved and 1 when the check consumed a retry); a client whose two
\* families are both forced has both bits set and the timer not armed.
C5_StartResets ==
    lastOp = "start" =>
        /\ maxResolveAttempts = 5
        /\ resolveAttempts = (IF bitMask = AllResolved THEN 0 ELSE 1)
        /\ timerIsRunning => (bitMask # AllResolved \/ pre.timerIsRunning)
        /\ (ForceDGW /\ Ipv6ForceDGW) =>
              (bitMask = AllResolved /\ ~timerIsRunning)

\* C6: OnRemove is safe from every state: an armed timer is stopped before
\* the subscribers are torn down, the timer is not armed after removal, and
\* no OnEvent run (hence no notification) follows the removal.
C6_RemoveSafe ==
    removed =>
        /\ ~timerIsRunning
        /\ lastOp = "remove"
        /\ Len(msgs) = pre.nmsgs
        /\ removeCalls = IF pre.timerIsRunning
                         THEN <<"timerw.Stop", "PluginCtx.OnRemove">>
                         ELSE <<"PluginCtx.OnRemove">>

\* removal of a client whose timer was armed
C6_Witness ==
    /\ removed
    /\ pre.timerIsRunning
    /\ bitMask # AllResolved

-----------------------------------------------------------------------------
\* C20 as stated: in every reachable state an armed timer implies that at
\* least one family's bit is unset; once both bits are set the timer is not
\* armed, is never armed again by a tick, and no further notification is
\* emitted.
C20_ArmedImpliesUnresolved ==
    /\ timerIsRunning => bitMask # AllResolved
    /\ (lastOp = "tick" /\ pre.bitMask = AllResolved) => ~timerIsRunning
    /\ (lastOp \in {"start", "tick"} /\ pre.bitMask = AllResolved) =>
          Len(msgs) = pre.nmsgs
\* C20 (amended): a timer that is armed while both bits are set was armed
\* before the AttemptResolve call whose check set the last bit (that call
\* leaves the armed timer as it is) and has not fired since; a tick never
\* leaves the timer armed with both bits set; a run that begins with both
\* bits set does not arm the timer and emits no notification.
C20_ArmedAfterResolved ==
    /\ (timerIsRunning /\ bitMask = AllResolved) =>
          (pre.timerIsRunning /\ lastOp \in {"start", "write"})
    /\ lastOp = "tick" => (timerIsRunning => bitMask # AllResolved)
    /\ (lastOp = "tick" /\ pre.bitMask = AllResolved) => ~timerIsRunning
    /\ (lastOp = "start" /\ pre.bitMask = AllResolved) =>
          timerIsRunning = pre.timerIsRunning
    /\ (lastOp \in {"start", "tick"} /\ pre.bitMask = AllResolved) =>
          Len(msgs) = pre.nmsgs

\* the timer that an AttemptResolve left armed with both bits set has fired:
\* it is not armed again and nothing is emitted
C20_Witness ==
    /\ lastOp = "tick"
    /\ pre.bitMask = AllResolved
    /\ ~timerIsRunning
    /\ Len(msgs) = pre.nmsgs
    /\ resolveAttempts < 5
(* Resolution with a timer that fires (checked under SpecResolveLive) *)

\* the two address families: the bit, and the ipv6 flag of a send
FamilyV4 == [bit |-> RESOLVED_IPV4_DG_MAC, ipv6 |-> FALSE]
FamilyV6 == [bit |-> RESOLVED_IPV6_DG_MAC, ipv6 |-> TRUE]

\* the family's gateway is resolvable: forced, bound or router-learned
FamilyResolvable(f) ==
    IF f.ipv6 THEN ResolveIPv6DGMac.ok ELSE ResolveIPv4DGMac.ok

\* the retries are exhausted with the family unresolved
FamilyExhausted(f) ==
    /\ maxResolveAttempts = MaxResolveAttempts
    /\ resolveAttempts >= maxResolveAttempts
    /\ ~timerIsRunning
    /\ f.bit \notin bitMask

\* the steps that are a tick, a start, and a unicast SendBuffer of a family
TickStep == lastOp' = "tick" /\ ticks' = ticks + 1
StartStep == lastOp' = "start" /\ MPool' = MPool
SendStep(f) ==
    /\ Len(MPool') > Len(MPool)
    /\ txLast'.op = "SendBuffer"
    /\ txLast'.unicast
    /\ txLast'.ipv6 = f.ipv6

\* the step emits one notification, which carries the new bitmask
Notified == msgs' = Append(msgs, [msg |-> MSG_DG_MAC_RESOLVED, a |-> bitMask'])

\* no notification emitted so far carries the family's bit
Unnotified(f) == \A k \in 1..Len(msgs') : f.bit \notin msgs'[k].a

\* a family resolvable while the timer is armed has its bit set, unless it
\* stops being resolvable or the client is removed (the timer is cancelled)
FamilyResolves(f) ==
    [](timerIsRunning /\ FamilyResolvable(f)
          => <>(f.bit \in bitMask \/ ~FamilyResolvable(f) \/ removed))

\* the tick that finds the family resolvable sets its bit and notifies
FamilyNextTick(f) ==
    (TickStep /\ FamilyResolvable(f) /\ f.bit \notin bitMask)
        => (f.bit \in bitMask' /\ Notified)

\* a unicast send for a family that became resolvable after the retries
\* were exhausted is not dropped
FamilyLateSend(f) ==
    (FamilyExhausted(f) /\ FamilyResolvable(f) /\ SendStep(f))
        => /\ o'.stats.TxDropNotResolve = o.stats.TxDropNotResolve
           /\ o'.stats.TxPkts = o.stats.TxPkts + 1

\* C23 as stated: if the gateway of a family becomes resolvable while the
\* timer of a client (that is not removed) is armed and stays resolvable,
\* and the timer collaborator fires every armed timer, the family's bit is
\* eventually set and a notification carrying it is emitted, at the next
\* tick; if it becomes resolvable only after the retries are exhausted, the
\* bit is never set and no notification is emitted, although a unicast send
\* for the family is no longer dropped.
C23_ResolutionLiveness ==
    /\ FamilyResolves(FamilyV4)
    /\ FamilyResolves(FamilyV6)
    /\ [][/\ FamilyNextTick(FamilyV4)
          /\ FamilyNextTick(FamilyV6)
          /\ bitMask' # bitMask => Notified
          /\ bitMask' = bitMask => msgs' = msgs
          /\ FamilyExhausted(FamilyV4) =>
                (RESOLVED_IPV4_DG_MAC \notin bitMask' /\ Unnotified(FamilyV4))
          /\ FamilyExhausted(FamilyV6) =>
                (RESOLVED_IPV6_DG_MAC \notin bitMask' /\ Unnotified(FamilyV6))
          /\ FamilyLateSend(FamilyV4)
          /\ FamilyLateSend(FamilyV6)]_vars

\* once the retries are exhausted, the family's bit is set only by a start,
\* whose check sets it, notifies, and leaves the timer not armed
FamilyAfterExhausted(f) ==
    FamilyExhausted(f) =>
        IF StartStep /\ FamilyResolvable(f)
        THEN f.bit \in bitMask' /\ Notified /\ ~timerIsRunning'
        ELSE f.bit \notin bitMask' /\ Unnotified(f)

\* C23 (amended): if the gateway of a family becomes resolvable while the
\* timer of a client (that is not removed) is armed and stays resolvable,
\* and the timer collaborator fires every armed timer, the family's bit is
\* eventually set.  The bit is set, and one notification carrying the new
\* bitmask is emitted, by the next tick that finds the family resolvable, or
\* by a start called before it.  If the family becomes resolvable only after
\* the retries are exhausted, no tick follows: the bit stays unset and
\* nothing is emitted until start is called again, whose synchronous check
\* sets the bit and emits the notification without arming the timer; a
\* unicast send for the family is not dropped meanwhile.
C23_ResolutionUntilRestart ==
    /\ FamilyResolves(FamilyV4)
    /\ FamilyResolves(FamilyV6)
    /\ [][/\ FamilyNextTick(FamilyV4)
          /\ FamilyNextTick(FamilyV6)
          /\ bitMask' # bitMask => Notified
          /\ bitMask' = bitMask => msgs' = msgs
          /\ FamilyAfterExhausted(FamilyV4)
          /\ FamilyAfterExhausted(FamilyV6)
          /\ FamilyLateSend(FamilyV4)
          /\ FamilyLateSend(FamilyV6)]_vars

\* a gateway binding written while the timer was armed was found by the
\* tick that followed: the bit is set and the notification emitted
C23_Witness ==
    /\ lastOp = "tick"
    /\ ~ForceDGW
    /\ RESOLVED_IPV4_DG_MAC \in bitMask \ pre.bitMask
    /\ pre.resolveAttempts > 0
    /\ Len(msgs) = pre.nmsgs + 1
    /\ msgs[Len(msgs)].a = bitMask

-----------------------------------------------------------------------------
(* Properties of the outbound path *)

\* the packet count each transmitted message declares in its header
WireCounts == [k \in 1..Len(txSocket) |-> Uint32At(txSocket[k], 0).lo]

\* C7 as stated (checked under SpecBurst): 65 frames of 100 bytes sent with
\* Send from an empty batch trigger exactly one flush and produce two wire
\* messages with packet counts 64 and 1; no wire message carries more than 64
\* packets.
C7_TwoMessagesAfter65Sends ==
    /\ \A k \in 1..Len(txSocket) : WireCounts[k] <= 64
    /\ (sendCalls = 65 /\ flushCalls = 0) =>
          (o.stats.TxBatch = 1 /\ WireCounts = <<64, 1>>)

\* C7 (amended, checked under SpecBurst): no wire message carries more than
\* 64 packets; of 65 frames sent with Send from an empty batch, the 64th
\* triggers the one flush (before the 65th is appended), which produces one
\* wire message of 64 packets; the 65th frame stays pending, and the second
\* wire message, of 1 packet, is produced by the FlushTx that follows.
C7_BurstFlush ==
    /\ \A k \in 1..Len(txSocket) :
          /\ WireCounts[k] <= 64
          /\ Len(txSocket[k]) = 4 + WireCounts[k] * (4 + BurstFrameLen)
    /\ (sendCalls = 64 /\ flushCalls = 0) =>
          (o.stats.TxBatch = 1 /\ WireCounts = <<64>> /\ o.vec = <<>>)
    /\ (sendCalls = 65 /\ flushCalls = 0) =>
          (o.stats.TxBatch = 1 /\ WireCounts = <<64>> /\ Len(o.vec) = 1)
    /\ (sendCalls = 65 /\ flushCalls = 1 /\ txLast.op = "FlushTx") =>
          (o.stats.TxBatch = 2 /\ WireCounts = <<64, 1>> /\ o.vec = <<>>)

\* 65 frames sent, then FlushTx: messages of 64 and 1 packets
C7_Witness ==
    /\ sendCalls = 65
    /\ flushCalls = 1
    /\ txLast.op = "FlushTx"
    /\ WireCounts = <<64, 1>>

\* C9 (checked under SpecTx): a unicast SendBuffer for a family whose gateway
\* MAC the resolver reports unresolved drops the frame: the not-resolved
\* counter goes up by one, the buffer it allocated is released, the pending
\* batch, its accumulated size and the sent counters are unchanged, nothing is
\* transmitted, and the call returns (no panic).
C9_UnresolvedUnicastDropped ==
    ( /\ txLast.op = "SendBuffer"
      /\ txLast.unicast
      /\ ~(IF txLast.ipv6 THEN ResolveIPv6DGMac ELSE ResolveIPv4DGMac).ok ) =>
        /\ o.stats.TxDropNotResolve = txLast.pre.stats.TxDropNotResolve + 1
        /\ Len(MPool) = txLast.pre.npool + 1
        /\ MPool[Len(MPool)] = 1
        /\ o.vec = txLast.pre.vec
        /\ o.txVecSize = txLast.pre.txVecSize
        /\ o.stats.TxPkts = txLast.pre.stats.TxPkts
        /\ o.stats.TxBytes = txLast.pre.stats.TxBytes
        /\ o.stats.TxBatch = txLast.pre.stats.TxBatch
        /\ Len(txSocket) = txLast.pre.nwire
        /\ ~panicked

\* an IPv6 unicast SendBuffer dropped while a batch is pending
C9_Witness ==
    /\ txLast.op = "SendBuffer"
    /\ txLast.unicast
    /\ txLast.ipv6
    /\ ~ResolveIPv6DGMac.ok
    /\ txLast.pre.vec # <<>>
    /\ o.stats.TxDropNotResolve = 1

-----------------------------------------------------------------------------
(* The wire format, as the format's description gives it *)

\* the entry of one frame: 0xAA, the low byte of the virtual port, the low
\* 16 bits of the length (big-endian), the payload
WireEntry(m) ==
    <<170, m.vport % 256, (Len(m.data) \div 256) % 256, Len(m.data) % 256>>
    \o m.data

RECURSIVE WireEntries(_)
WireEntries(ms) ==
    IF ms = <<>> THEN <<>> ELSE WireEntry(Head(ms)) \o WireEntries(Tail(ms))

\* the message of a batch: 0xBEEF, the frame count (big-endian), the entries
WireMessage(ms) ==
    <<190, 239, (Len(ms) \div 256) % 256, Len(ms) % 256>> \o WireEntries(ms)

\* C13 (checked under SpecTx): FlushTx on a pending batch of k >= 1 frames
\* transmits exactly one message, made of the header (0xBEEF << 16) | k and,
\* in batch order, each frame's header
\* (0xAA << 24) | (vport & 0xFF) << 16 | (length & 0xFFFF) and its payload;
\* it releases every batched buffer and leaves the batch empty with
\* accumulated size 0.  FlushTx on an empty batch transmits nothing.
C13_FlushWireFormat ==
    txLast.op = "FlushTx" =>
        IF txLast.pre.vec # <<>>
        THEN /\ Len(txSocket) = txLast.pre.nwire + 1
             /\ txSocket[Len(txSocket)] = WireMessage(txLast.pre.vec)
             /\ \A i \in 1..Len(txLast.pre.vec) :
                   MPool[txLast.pre.vec[i].id] = 1
             /\ o.vec = <<>>
             /\ o.txVecSize = 0
             /\ o.stats.TxBatch = txLast.pre.stats.TxBatch + 1
             /\ ~panicked
        ELSE /\ Len(txSocket) = txLast.pre.nwire
             /\ o.stats = txLast.pre.stats
             /\ o.vec = <<>>
             /\ o.txVecSize = txLast.pre.txVecSize

\* a batch of two frames was flushed, one of them with a virtual port above
\* 255
C13_Witness ==
    /\ txLast.op = "FlushTx"
    /\ Len(txLast.pre.vec) = 2
    /\ \E i \in 1..2 : txLast.pre.vec[i].vport > 255
    /\ \E i \in 1..2 : Len(txLast.pre.vec[i].data) > 0
    /\ Len(txSocket) = 1

-----------------------------------------------------------------------------
(* Conservation of the outbound frames (checked under SpecConserve) *)

\* what a packet entry keeps of a frame: the low byte of the virtual port
\* and the payload
AsEntry(m) == [vport |-> m.vport % 256, data |-> m.data]

\* the n packet entries of a message that follow offset `of`
RECURSIVE WireFramesFrom(_, _, _)
WireFramesFrom(msg, of, n) ==
    IF n = 0 THEN <<>>
    ELSE LET len == msg[of + 3] * 256 + msg[of + 4]
         IN  <<[vport |-> msg[of + 2], data |-> SubSeq(msg, of + 5, of + 4 + len)]>>
             \o WireFramesFrom(msg, of + 4 + len, n - 1)

WireFrames(msg) == WireFramesFrom(msg, 4, msg[3] * 256 + msg[4])

\* the entries of the messages sock[k..], in transmission order
RECURSIVE WireStream(_, _)
WireStream(sock, k) ==
    IF k > Len(sock) THEN <<>>
    ELSE WireFrames(sock[k]) \o WireStream(sock, k + 1)

\* the transmitted entries followed by the pending frames
TxStream(sock, vec) ==
    WireStream(sock, 1) \o [i \in 1..Len(vec) |-> AsEntry(vec[i])]

\* the ConservePending frames sent before the first state
ConserveSent ==
    [k \in 1..ConservePending |->
        [vport |-> 1, data |-> FrameData(k, ConservePendingLen)]]

ConserveCounts ==
    /\ ~panicked
    /\ \A k \in 1..Len(txSocket) :
          WireMessage(WireFrames(txSocket[k])) = txSocket[k]
    /\ o.stats.TxPkts = Len(TxStream(txSocket, o.vec))
    /\ o.stats.TxPkts = sendCalls
    /\ \A i, j \in 1..Len(o.vec) : o.vec[i].id = o.vec[j].id => i = j
    /\ \A i \in 1..Len(o.vec) : o.vec[i].contiguous
    /\ \A id \in 1..Len(MPool) :
          MPool[id] = IF \E i \in 1..Len(o.vec) : o.vec[i].id = id
                      THEN 0 ELSE 1

ConserveStep ==
    /\ txLast'.op = "Send" =>
          /\ TxStream(txSocket', o'.vec)
                = Append(TxStream(txSocket, o.vec), AsEntry(txLast'.m))
          /\ o'.vec # <<>> =>
                /\ o'.vec[Len(o'.vec)].vport = txLast'.m.vport
                /\ o'.vec[Len(o'.vec)].data = txLast'.m.data
    /\ txLast'.op = "FlushTx" =>
          /\ TxStream(txSocket', o'.vec) = TxStream(txSocket, o.vec)
          /\ o'.vec = <<>>

\* C21: for every sequence of Send and FlushTx calls, the packet entries of
\* the transmitted messages in transmission order, followed by the frames of
\* the pending batch, are the frames passed to Send in call order: each Send
\* appends its frame (a non-contiguous frame as its contiguous copy) and
\* FlushTx moves the pending frames to the wire, none lost, duplicated or
\* reordered.  The sent-packet counter equals the packets transmitted plus
\* the packets pending, and every buffer that is no longer pending has been
\* released exactly once, the pending ones not yet.
C21_FramesConserved ==
    /\ TxStream(txSocket, o.vec) = ConserveSent
    /\ []ConserveCounts
    /\ [][ConserveStep]_vars

\* a non-contiguous frame was sent after the burst flush of 64 frames: its
\* contiguous copy is pending and the buffer it came in was released
C21_Witness ==
    /\ txLast.op = "Send"
    /\ ~txLast.m.contiguous
    /\ Len(txSocket) = 1
    /\ Len(WireFrames(txSocket[1])) = ZMQ_TX_PKT_BURST_SIZE
    /\ Len(o.vec) = 1
    /\ MPool[o.vec[1].id] = 0
    /\ MPool[o.vec[1].id - 1] = 1

-----------------------------------------------------------------------------
(* The wire round trip (checked under SpecWire) *)

\* C22: every message that FlushTx produces from frames accepted by Send,
\* each of 0 to 65535 bytes, is parsed by OnRxStream without a parse error
\* and without an access outside the message, and yields exactly the batched
\* frames, in order, with the same payload and the same vport modulo 256.
C22_WireRoundTrip ==
    codec.op = "parsed" =>
        /\ Len(codec.runs) = Len(codec.sent)
        /\ \A k \in 1..Len(codec.runs) :
              /\ ~codec.runs[k].err
              /\ ~codec.runs[k].panic
              /\ codec.runs[k].handled = codec.sent[k].pkts
        /\ Len(codec.out) = Len(codec.frames)
        /\ \A i \in 1..Len(codec.out) :
              /\ i <= Len(codec.frames)
              /\ codec.out[i].vport = codec.frames[i].vport % 256
              /\ codec.out[i].len = codec.frames[i].len
              /\ codec.out[i].intact

-----------------------------------------------------------------------------
(* The byte ceiling (checked under SpecBig) *)

\* the frame payload a transmitted message carries
WirePayload(msg) == Len(msg) - 4 - 4 * Uint32At(msg, 0).lo

\* C17 as stated: for every sequence of Send calls with frames of any length
\* from 0 to 65535 bytes, the accumulated payload of the pending batch after
\* Send returns is below 32 KiB and no wire message carries 32 KiB or more of
\* frame payload.
C17_BelowCeiling ==
    /\ txLast.op = "Send" => o.txVecSize < 32 * 1024
    /\ \A k \in 1..Len(txSocket) : WirePayload(txSocket[k]) < 32 * 1024

\* C17 (amended): Send flushes the pending batch before appending a frame
\* whenever the accumulated payload plus that frame would reach 32 KiB.  The
\* accumulated payload after Send returns is below 32 KiB, and a wire message
\* carries less than 32 KiB of payload, unless the batch, or the message, is
\* a single frame of 32 KiB or more.
C17_CeilingButOneFrame ==
    /\ txLast.op = "Send" =>
          LET m == o.vec[Len(o.vec)] IN
          /\ o.vec # <<>>
          /\ o.txVecSize < 32 * 1024
                \/ (Len(o.vec) = 1 /\ PktLen(m) >= 32 * 1024)
          /\ IF txLast.pre.txVecSize + PktLen(m) >= 32 * 1024
             THEN /\ Len(o.vec) = 1
                  /\ o.txVecSize = PktLen(m)
                  /\ Len(txSocket) = txLast.pre.nwire
                        + (IF txLast.pre.vec = <<>> THEN 0 ELSE 1)
             ELSE /\ Len(o.vec) = Len(txLast.pre.vec) + 1
                  /\ o.txVecSize = txLast.pre.txVecSize + PktLen(m)
                  /\ Len(txSocket) = txLast.pre.nwire
    /\ \A k \in 1..Len(txSocket) :
          \/ WirePayload(txSocket[k]) < 32 * 1024
          \/ Uint32At(txSocket[k], 0).lo = 1

\* a Send of a frame that would take the batch to exactly 32 KiB flushed the
\* pending frame first
C17_Witness ==
    /\ txLast.op = "Send"
    /\ txLast.pre.txVecSize = 1
    /\ o.txVecSize = 32 * 1024 - 1
    /\ Len(txSocket) = 1
    /\ WirePayload(txSocket[1]) = 1

-----------------------------------------------------------------------------
(* Properties of the resolver (checked under SpecResolve) *)

\* the gateway MAC the precedence rules give for a family: a record
\* [mac, ok], ok = FALSE for unresolved
PrecedenceV4 ==
    CASE ForceDGW -> [mac |-> Forced4Mac, ok |-> TRUE]
      [] ~ForceDGW /\ DGW # Nil /\ DGW.IpdgResolved ->
            [mac |-> Bound4Mac, ok |-> TRUE]
      [] OTHER -> [mac |-> ZeroMac, ok |-> FALSE]

PrecedenceV6 ==
    CASE Ipv6ForceDGW -> [mac |-> Forced6Mac, ok |-> TRUE]
      [] ~Ipv6ForceDGW /\ Ipv6DGW # Nil /\ Ipv6DGW.IpdgResolved ->
            [mac |-> Bound6Mac, ok |-> TRUE]
      [] /\ ~Ipv6ForceDGW
         /\ ~(Ipv6DGW # Nil /\ Ipv6DGW.IpdgResolved)
         /\ Ipv6Router # Nil -> [mac |-> RouterMac, ok |-> TRUE]
      [] OTHER -> [mac |-> ZeroMac, ok |-> FALSE]

\* C12: resolver precedence.  IPv4: the forced MAC when the force flag is
\* set, else the bound gateway's MAC when the binding is resolved, else
\* unresolved.  IPv6: the forced MAC, else the bound gateway's MAC, else the
\* router snapshot's MAC when a snapshot exists, else unresolved.  A unicast
\* SendBuffer, which consults the resolver, sends the frame to exactly that
\* MAC or drops it when unresolved, and leaves the client's state as it was.
C12_ResolverPrecedence ==
    [][ txLast'.op = "SendBuffer" =>
          LET want == IF txLast'.ipv6 THEN PrecedenceV6 ELSE PrecedenceV4
              got  == IF txLast'.ipv6 THEN ResolveIPv6DGMac
                                      ELSE ResolveIPv4DGMac
          IN  /\ got = want
              /\ clientVars' = clientVars
              /\ IF want.ok
                 THEN /\ Len(o'.vec) = Len(o.vec) + 1
                      /\ SubSeq(o'.vec[Len(o'.vec)].data, 1, 6) = want.mac
                      /\ o'.stats.TxDropNotResolve = o.stats.TxDropNotResolve
                 ELSE /\ o'.vec = o.vec
                      /\ o'.stats.TxDropNotResolve =
                            o.stats.TxDropNotResolve + 1 ]_vars

\* an IPv6 unicast frame was sent to the bound gateway of a client that has
\* a router snapshot as well, and one to the router of a client whose bound
\* gateway is unresolved
C12_Witness ==
    /\ txLast.op = "SendBuffer"
    /\ txLast.ipv6
    /\ ~Ipv6ForceDGW
    /\ Ipv6Router # Nil
    /\ Ipv6DGW # Nil
    /\ o.vec # <<>>
    /\ SubSeq(o.vec[Len(o.vec)].data, 1, 6) =
          (IF Ipv6DGW.IpdgResolved THEN Bound6Mac ELSE RouterMac)
    /\ o.stats.TxPkts = 2

-----------------------------------------------------------------------------
(* Properties of the inbound path (checked under SpecRx) *)

\* The packets a message frames, read with unbounded offsets:
\* [ok |-> TRUE, pkts |-> the sequence of [vport, data]] if every declared
\* entry lies within the message and has the packet magic, and ok |-> FALSE
\* if the message is malformed.
Malformed == [ok |-> FALSE, pkts |-> <<>>]

RECURSIVE RxFramedFrom(_, _, _, _)
RxFramedFrom(stream, pkts, of, acc) ==
    IF pkts = 0 THEN [ok |-> TRUE, pkts |-> acc]
    ELSE IF Len(stream) < of + 4 THEN Malformed
    ELSE LET h == Uint32At(stream, of) IN
         IF h.hi \div U8 # PktMagic \/ Len(stream) < of + 4 + h.lo
         THEN Malformed
         ELSE RxFramedFrom(stream, pkts - 1, of + 4 + h.lo,
                  Append(acc, [vport |-> h.hi % U8,
                               data |-> SubSeq(stream, of + 5, of + 4 + h.lo)]))

RxFramed(stream) ==
    IF Len(stream) < 4 THEN Malformed
    ELSE IF Uint32At(stream, 0).hi # ZMQ_PACKET_HEADER_MAGIC THEN Malformed
    ELSE RxFramedFrom(stream, Uint32At(stream, 0).lo, 4, <<>>)

\* C8: a malformed inbound message is never partially delivered: for every
\* message passed to OnRxStream that fails a validation, the parse-error
\* counter is incremented and none of its packets is handed to the packet
\* handler, the well-formed ones before the faulty entry included.
C8_NoPartialDelivery ==
    \A k \in 1..Len(parseLog) :
        ~RxFramed(parseLog[k].stream).ok =>
            /\ parseLog[k].parseErrs = 1
            /\ parseLog[k].handled = 0
            /\ ~parseLog[k].panic

\* the packets of message q handed to the packet handler, in hand-over order
RxHandledOf(q) ==
    LET OfQ(h) == h.seq = q
        hs == SelectSeq(rxHandled, OfQ)
    IN  [k \in 1..Len(hs) |-> [vport |-> hs[k].vport, data |-> hs[k].data]]

\* C10: rxThread hands the messages to the channel in the order they came off
\* the wire, the parser hands the packets of a message to the packet handler
\* in the order they were framed, and over every interleaving of rxThread and
\* the consumer no packet of a later message is handed over before a packet
\* of an earlier one.
C10_InboundOrder ==
    /\ cnLog = [k \in 1..Len(cnLog) |-> k]
    /\ \A i, j \in 1..Len(rxHandled) :
          i < j => rxHandled[i].seq <= rxHandled[j].seq
    /\ \A k \in 1..Len(parseLog) :
          RxFramed(parseLog[k].stream).ok =>
              RxHandledOf(parseLog[k].seq) = RxFramed(parseLog[k].stream).pkts

\* two messages parsed, the second of two packets, while rxThread met a
\* receive error
C10_Witness ==
    /\ Len(parseLog) = 2
    /\ parseLog[1].handled = 1
    /\ parseLog[2].handled = 2
    /\ RxFramed(parseLog[2].stream).ok
    /\ Len(rxHandled) = 3
    /\ rxErrs = 1

\* C14 (checked under SpecRxLive): a receive error on the inbound channel of
\* a live transport never makes the receive task exit: the task counts the
\* error and tries again, and, as long as the consumer keeps draining the
\* queue, every message that is on the wire after the error is still
\* received and handed to the delivery queue.
C14_RecvErrorNoExit ==
    /\ [](rxPc \in {"recv", "send"})
    /\ [](o.stats.RxZmqErr = rxErrs)
    /\ [](rxErrs > 0 =>
            <>(rxSocket = <<>> /\ rxPc = "recv" /\ ~panicked))

\* the consumer holds a message that the receive task received after a
\* receive error
C14_Witness ==
    /\ cnMsg # Nil
    /\ cnMsg.errs = 1
    /\ o.stats.RxZmqErr = 1
    /\ ~panicked

-----------------------------------------------------------------------------
(* Properties of the teardown (checked under SpecDown and SpecDownLive) *)

\* C15 (checked under SpecDownLive): once SimulatorCleanup has closed the
\* channel, the receive task eventually stops, instead of retrying the
\* closed channel forever, and hands no further message to the delivery
\* queue.
\* (A task that stops makes at most one more receive attempt, the one that
\* tells it of the close.)
C15_GracefulStop ==
    /\ (o.closed ~> (rxPc = "exit"))
    /\ [](o.closed =>
            o.stats.RxZmqErr <= txLast.pre.stats.RxZmqErr + 1)
    /\ [][o.closed => cnLog' = cnLog]_vars

\* C19 (checked under SpecDown): SimulatorCleanup releases every frame of the
\* pending batch exactly once, and does so before it closes the sockets; the
\* pending frames are not transmitted, and a frame released by an earlier
\* flush is not released again.
C19_CleanupReleasesPending ==
    /\ \A id \in 1..Len(MPool) : MPool[id] <= 1
    /\ txLast.op = "SimulatorCleanup" =>
          LET vec   == txLast.pre.vec
              calls == txLast.calls
          IN  /\ o.closed
              /\ o.vec = <<>>
              /\ \A i \in 1..Len(vec) : MPool[vec[i].id] = 1
              /\ Len(txSocket) = txLast.pre.nwire
              /\ o.stats.TxBatch = txLast.pre.stats.TxBatch
              /\ Len(calls) = Len(vec) + 4
              /\ \A i \in 1..Len(vec) :
                    calls[i] = [call |-> "FreeMbuf", id |-> vec[i].id]
              /\ calls[Len(vec) + 1].call = "rxSocket.Close"
              /\ calls[Len(vec) + 2].call = "txSocket.Close"

\* a teardown with one frame pending after an earlier flush of another, while
\* the receive task holds a message for the queue
C19_Witness ==
    /\ txLast.op = "SimulatorCleanup"
    /\ Len(txLast.pre.vec) = 1
    /\ Len(txSocket) = 1
    /\ Len(MPool) = 2
    /\ rxPc = "send"
-----------------------------------------------------------------------------
(* Properties of the codec (checked under SpecCodec) *)

\* the ordered tag ids a CTunnelData carries in its non-zero slots
TagIds(Vlans) ==
    LET NonZero(w) == w # ZeroWord
        ws == SelectSeq(Vlans, NonZero)
    IN  [i \in 1..Len(ws) |-> ws[i].lo % 4096]

\* C11: round trip of the codec: for every ordered tag sequence of length 0,
\* 1 or 2 and every virtual port, decoding, with that port, a frame that was
\* rewritten with the TunnelKey built from the sequence yields the same
\* ordered tag ids and the same port (the priority bits are not compared).
C11_CodecRoundTrip ==
    codec.op = "roundtrip" =>
        /\ ~codec.panic
        /\ TagIds(TunnelKeyGet(codec.got).Vlans) =
              [i \in 1..Len(codec.tags) |-> codec.tags[i].lo % 4096]
        /\ TunnelKeyGet(codec.got).Vport = codec.port

\* a frame with three tags was rewritten with a key of two tags, the first
\* with id 4095, for port 65535, and decoded
C11_Witness ==
    /\ codec.op = "roundtrip"
    /\ ~codec.panic
    /\ Len(codec.tags) = 2
    /\ codec.tags[1].lo = 4095
    /\ codec.port = U16 - 1
    /\ codec.p.len = 12 + 8 + 3
    /\ TagIds(TunnelKeyGet(codec.got).Vlans) = <<4095, 5>>

\* C18: the decode is bounded to the capacity of 2 tags: for every frame,
\* one with 3 or more tags and one that ends inside a tag included, it
\* returns (with the frame rejected or the tag list cut at 2) and reads
\* neither the tag array nor the frame's bytes out of range.
C18_DecodeBounded ==
    codec.op \in {"decoded", "roundtrip"} => (~codec.panic /\ ~codec.over)
-----------------------------------------------------------------------------
(* Properties of the routing (checked under SpecVyos) *)

\* the packets that have a translation in the opposite side's table, and
\* what they are forwarded as: [vport, data, outVport, outData]
VyosRoutes ==
    { [vport |-> 1, data |-> VyosFrame(TagBytes(0, 100)),
       outVport |-> ToVyosPort,
       outData |-> VyosFrame(TagBytes(0, 200) \o TagBytes(0, 7))],
      [vport |-> ToVyosPort,
       data |-> VyosFrame(TagBytes(0, 200) \o TagBytes(0, 7)),
       outVport |-> 1, outData |-> VyosFrame(TagBytes(0, 100))] }

VyosRouteOf(h) ==
    CHOOSE r \in VyosRoutes : r.vport = h.vport /\ r.data = h.data

\* the validated packets so far that have a translation, in order
VyosRouted ==
    LET HasRoute(h) == \E r \in VyosRoutes :
                          r.vport = h.vport /\ r.data = h.data
    IN  SelectSeq(rxHandled, HasRoute)

\* C16: routing of a validated inbound packet.  With the switch not set the
\* packet goes to the default handler and nothing is sent.  With the switch
\* set the packet is rewritten and forwarded exactly when a translation key
\* for its TunnelKey is found in the opposite side's table, and is dropped
\* (not forwarded) when none is found, for packets of the proxy-side port
\* and of the other ports alike.
C16_VyosRouting ==
    /\ ~panicked
    /\ useVyos # "yes" =>
          /\ o.vec = <<>>
          /\ o.stats.TxPkts = 0
          /\ \A k \in 1..Len(rxHandled) :
                rxHandled[k].via = "cb.HandleRxPacket"
    /\ useVyos = "yes" =>
          /\ Len(o.vec) = Len(VyosRouted)
          /\ \A k \in 1..Len(o.vec) :
                /\ k <= Len(VyosRouted)
                /\ o.vec[k].vport = VyosRouteOf(VyosRouted[k]).outVport
                /\ o.vec[k].data = VyosRouteOf(VyosRouted[k]).outData
=============================================================================
